---- MODULE Spec2Model ----
(***************************************************************************)
(* GitHub Activity Orchestrator: the orchestration loop (index.ts), the    *)
(* rate-limit aware request wrapper (githubClient.ts), the merge manager   *)
(* (mergeManager.ts), the PR pipeline (prManager.ts), the comment manager  *)
(* (commentManager.ts) and the analytics accumulator (analytics.ts).       *)
(*                                                                         *)
(* The program is one logical thread.  pc names the await at which it is   *)
(* suspended; every action is the code that runs between two awaits.       *)
(***************************************************************************)
EXTENDS Integers, Sequences, FiniteSets, TLC

\* ------------------------------------------------------------------------
\* Bounds of the model
\* ------------------------------------------------------------------------

\* Largest value of config.maxIssuesPerRun and config.maxPrsPerRun explored.
MaxCap == 2

\* analytics.ts called on its own: the number of record* calls explored and
\* the number of records the file can hold.
MaxRecordCalls == 2

MaxRuns == 2

\* ------------------------------------------------------------------------
\* Program constants
\* ------------------------------------------------------------------------

\* mergeManager.ts, isMergeable
MAX_ATTEMPTS == 5
DELAY_MS == 3000

\* githubClient.ts, retryAfterMs
DEFAULT_WAIT == 60000

\* The timestamps the remote (created_at) and the local clock (nowISO) are
\* explored with: two instants, so that a later stamp can be equal to, after
\* or (clock skew) before an earlier one.
Times == {0, 1}

Min(a, b) == IF a < b THEN a ELSE b

Max(a, b) == IF a > b THEN a ELSE b

\* ------------------------------------------------------------------------
\* Outcomes of one invocation of a remote call (a thunk)
\* ------------------------------------------------------------------------

\* A fulfilled call.  mergeable is data.mergeable of pulls.get ("true",
\* "false" or "null"); createdAt is data.created_at of a create call.
Ok(m, t) == [kind |-> "ok", status |-> 200, retryAfter |-> "absent", mergeable |-> m, createdAt |-> t]

\* A rejected call.  status is err.status (0: the error carries no status);
\* retryAfter is err.response["retry-after"] ("absent": no response object or
\* no such entry, otherwise the raw string).
Err(s, h) == [kind |-> "err", status |-> s, retryAfter |-> h, mergeable |-> "null", createdAt |-> 0]

NoOutcome == [kind |-> "none", status |-> 0, retryAfter |-> "absent", mergeable |-> "null", createdAt |-> 0]

\* The failures a remote call is explored with: throttling with and without
\* a usable Retry-After, a server error, and an error without a status.
ThunkErrors == {Err(403, "absent"), Err(429, "2"), Err(429, "soon"), Err(500, "absent"), Err(0, "absent")}

\* What a fulfilled call of each label can carry.
ThunkValues(label) ==
  CASE label = "check-mergeable" -> {Ok(m, 0) : m \in {"true", "false", "null"}}
    [] label \in {"create-issue", "comment-issue", "create-pr"} -> {Ok("null", t) : t \in Times}
    [] OTHER -> {Ok("null", 0)}

ThunkOutcomes(label) == ThunkValues(label) \cup ThunkErrors

\* ------------------------------------------------------------------------
\* githubClient.ts: isRateLimited, retryAfterMs
\* ------------------------------------------------------------------------

\* Variant: every failure with an HTTP error status counts as throttling.
isRateLimited_anyFailure(err) == err.status >= 400

isRateLimited(err) == err.status = 403 \/ err.status = 429

\* parseInt(raw, 10) on the header strings explored: finite for a decimal
\* prefix, NaN otherwise.
parseInt(raw) ==
  CASE raw = "2" -> [finite |-> TRUE, value |-> 2]
    [] OTHER -> [finite |-> FALSE, value |-> 0]

retryAfterMs(err) ==
  IF err.retryAfter = "absent" THEN DEFAULT_WAIT
  ELSE IF parseInt(err.retryAfter).finite THEN parseInt(err.retryAfter).value * 1000
  ELSE DEFAULT_WAIT

\* ------------------------------------------------------------------------
\* analytics.ts: the in-flight accumulator and its record* operations
\* ------------------------------------------------------------------------

NoRun == [active |-> FALSE, issuesCreated |-> 0, issuesClosed |-> 0, prsOpened |-> 0, prsMerged |-> 0, yoloMerges |-> 0, commentsPosted |-> 0, coAuthoredCommits |-> 0, issueToFirstCommentMs |-> <<>>, prOpenToMergeMs |-> <<>>]

\* startRun(): a fresh accumulator replaces whatever was there.
startRun == [NoRun EXCEPT !.active = TRUE]

\* Variant: no check, the call goes on without a run in flight.
ensureRunning_silent(c) == TRUE

\* ensureRunning(): throws unless a run is in flight.
ensureRunning(c) == c.active

recordIssueCreated(c) == [c EXCEPT !.issuesCreated = @ + 1]

\* Variant: a closed issue is not counted.
recordIssueClosed_noop(c) == c

recordIssueClosed(c) == [c EXCEPT !.issuesClosed = @ + 1]

\* Variant: an opened PR counts twice.
recordPROpened_twice(c) == [c EXCEPT !.prsOpened = @ + 2]

recordPROpened(c) == [c EXCEPT !.prsOpened = @ + 1]

\* Variant: every merge counts as a YOLO merge.
recordPRMerged_flagsYolo(c, yolo) == [c EXCEPT !.prsMerged = @ + 1, !.yoloMerges = @ + 1]

recordPRMerged(c, yolo) == [c EXCEPT !.prsMerged = @ + 1, !.yoloMerges = IF yolo THEN @ + 1 ELSE @]

\* Variant: a comment also counts as an issue.
recordCommentPosted_alsoIssue(c) == [c EXCEPT !.commentsPosted = @ + 1, !.issuesCreated = @ + 1]

recordCommentPosted(c) == [c EXCEPT !.commentsPosted = @ + 1]

recordCoAuthoredCommit(c) == [c EXCEPT !.coAuthoredCommits = @ + 1]

recordIssueToComment(c, issueCreatedAt, commentCreatedAt) == [c EXCEPT !.issueToFirstCommentMs = Append(@, Max(commentCreatedAt - issueCreatedAt, 0))]

\* Variant: the difference is stored as it is.
recordPRToMerge_unclamped(c, prCreatedAt, mergedAt) == [c EXCEPT !.prOpenToMergeMs = Append(@, mergedAt - prCreatedAt)]

recordPRToMerge(c, prCreatedAt, mergedAt) == [c EXCEPT !.prOpenToMergeMs = Append(@, Max(mergedAt - prCreatedAt, 0))]

\* ------------------------------------------------------------------------
\* analytics.ts: the persisted store, endRun and getAggregateStats
\* ------------------------------------------------------------------------

\* The analytics file as the process finds it.  kind is "missing" (no such
\* file), "corrupt" (not JSON), "invalid" (JSON whose version is falsy or
\* whose runs is not an array), "valid", or "unread" while the process has
\* not looked at it yet; runs are the records of a valid file.
StoreFile(kind, runs) == [kind |-> kind, runs |-> runs]

\* The finalized record of the accumulator c ({...current, finishedAt}).
finalize(c) == [c EXCEPT !.active = FALSE]

\* emptyData(): { version: 1, runs: [] }
emptyData == <<>>

\* Variant: the history on disk is never read back.
loadPersistedData_fresh(f) == emptyData

\* loadPersistedData(): the runs of a valid file; a missing file, a read or
\* parse failure (caught and logged) and an invalid shape give emptyData().
loadPersistedData(f) == IF f.kind = "valid" THEN f.runs ELSE emptyData

\* Variant: only the newest record is written.
savePersistedData_lastOnly(runs) == StoreFile("valid", <<runs[Len(runs)]>>)

\* savePersistedData(data) when the write goes through.
savePersistedData(runs) == StoreFile("valid", runs)

\* Variant: endRun refuses a store it cannot read.
endRun_strict(c, f, writable) ==
  IF ~c.active \/ f.kind # "valid" \/ ~writable
  THEN [threw |-> TRUE, ret |-> NoRun, current |-> c, store |-> f]
  ELSE [threw |-> FALSE, ret |-> finalize(c), current |-> NoRun, store |-> savePersistedData(Append(loadPersistedData(f), finalize(c)))]

\* Variant: current is cleared before the store is written.
endRun_clearsFirst(c, f, writable) ==
  IF ~c.active
  THEN [threw |-> TRUE, ret |-> NoRun, current |-> c, store |-> f]
  ELSE IF ~writable
       THEN [threw |-> TRUE, ret |-> NoRun, current |-> NoRun, store |-> f]
       ELSE [threw |-> FALSE, ret |-> finalize(c), current |-> NoRun, store |-> savePersistedData(Append(loadPersistedData(f), finalize(c)))]

\* endRun() with accumulator c and file f; writable tells whether mkdirSync
\* and writeFileSync of savePersistedData go through.  It throws without a
\* run in flight and when the write throws (before current is cleared).
endRun(c, f, writable) ==
  IF ~c.active
  THEN [threw |-> TRUE, ret |-> NoRun, current |-> c, store |-> f]
  ELSE IF ~writable
       THEN [threw |-> TRUE, ret |-> NoRun, current |-> c, store |-> f]
       ELSE [threw |-> FALSE, ret |-> finalize(c), current |-> NoRun, store |-> savePersistedData(Append(loadPersistedData(f), finalize(c)))]

\* Variant: only the last number counts.
sum_last(nums) == IF Len(nums) = 0 THEN 0 ELSE nums[Len(nums)]

\* sum(nums): nums.reduce((a, b) => a + b, 0)
RECURSIVE sum(_)
sum(nums) == IF Len(nums) = 0 THEN 0 ELSE nums[1] + sum(SubSeq(nums, 2, Len(nums)))

RECURSIVE GCD(_, _)
GCD(a, b) == IF b = 0 THEN a ELSE GCD(b, a % b)

\* The number n / d of a JavaScript division of two non-negative integers
\* (d > 0), kept exact as a fraction in lowest terms.
Quotient(n, d) == [num |-> n \div GCD(n, d), den |-> d \div GCD(n, d)]

Zero == Quotient(0, 1)

\* avg(nums): nums.length === 0 ? 0 : sum(nums) / nums.length
avg(nums) == IF Len(nums) = 0 THEN Zero ELSE Quotient(sum(nums), Len(nums))

\* runs.map((r) => r[field])
map(runs, field) == [k \in 1..Len(runs) |-> runs[k][field]]

\* runs.flatMap((r) => r[field])
RECURSIVE flatMap(_, _)
flatMap(runs, field) == IF Len(runs) = 0 THEN <<>> ELSE runs[1][field] \o flatMap(SubSeq(runs, 2, Len(runs)), field)

\* The sum of two fractions.
AddQuotient(p, q) == Quotient(p.num * q.den + q.num * p.den, p.den * q.den)

RECURSIVE sumQuotients(_)
sumQuotients(qs) == IF Len(qs) = 0 THEN Zero ELSE AddQuotient(qs[1], sumQuotients(SubSeq(qs, 2, Len(qs))))

\* Variant: the mean of the per-run means of the runs that have entries.
avgOfMeans(runs, field) ==
  LET have == SelectSeq(runs, LAMBDA r : Len(r[field]) > 0)
      total == sumQuotients([k \in 1..Len(have) |-> avg(have[k][field])])
  IN IF Len(have) = 0 THEN Zero ELSE Quotient(total.num, total.den * Len(have))

\* Variant of getAggregateStats with avgOfMeans for the two averages.
getAggregateStats_meanOfMeans(f) ==
  LET runs == loadPersistedData(f)
  IN [totalRuns |-> Len(runs),
      totalIssuesCreated |-> sum(map(runs, "issuesCreated")),
      totalIssuesClosed |-> sum(map(runs, "issuesClosed")),
      totalPRsOpened |-> sum(map(runs, "prsOpened")),
      totalPRsMerged |-> sum(map(runs, "prsMerged")),
      totalYoloMerges |-> sum(map(runs, "yoloMerges")),
      totalComments |-> sum(map(runs, "commentsPosted")),
      totalCoAuthoredCommits |-> sum(map(runs, "coAuthoredCommits")),
      avgIssueToCommentMs |-> avgOfMeans(runs, "issueToFirstCommentMs"),
      avgPRToMergeMs |-> avgOfMeans(runs, "prOpenToMergeMs")]

\* getAggregateStats() on the file f.
getAggregateStats(f) ==
  LET runs == loadPersistedData(f)
      allIssueToComment == flatMap(runs, "issueToFirstCommentMs")
      allPRToMerge == flatMap(runs, "prOpenToMergeMs")
  IN [totalRuns |-> Len(runs),
      totalIssuesCreated |-> sum(map(runs, "issuesCreated")),
      totalIssuesClosed |-> sum(map(runs, "issuesClosed")),
      totalPRsOpened |-> sum(map(runs, "prsOpened")),
      totalPRsMerged |-> sum(map(runs, "prsMerged")),
      totalYoloMerges |-> sum(map(runs, "yoloMerges")),
      totalComments |-> sum(map(runs, "commentsPosted")),
      totalCoAuthoredCommits |-> sum(map(runs, "coAuthoredCommits")),
      avgIssueToCommentMs |-> avg(allIssueToComment),
      avgPRToMergeMs |-> avg(allPRToMerge)]

\* The statistics of an empty store.
NoStats == getAggregateStats(StoreFile("missing", emptyData))

\* ------------------------------------------------------------------------
\* State
\* ------------------------------------------------------------------------

VARIABLES
  cfg,          \* config.ts: the configuration singleton
  pc,           \* the await at which the program is suspended
  i,            \* main: loop counter
  iterations,   \* main: Math.min(maxIssuesPerRun, maxPrsPerRun)
  current,      \* analytics.ts: the in-flight accumulator (NoRun: null)
  store,        \* analytics.ts: the runs of the persisted store
  rl,           \* withRateLimit: the frame of the wrapped call in flight
  mg,           \* isMergeable: the frame of the polling loop
  mp,           \* mergePullRequest: the frame of the merge in flight
  wf,           \* runSingleWorkflow: issue, pr, canMerge of this iteration
  exitCode,     \* process exit code (-1: still running)
  obs,          \* observation of the run: calls made, iterations started/failed
  api,          \* analytics.ts: the last call of its interface and its result
  procs         \* invocations of the program that share the analytics file

vars == <<cfg, pc, i, iterations, current, store, rl, mg, mp, wf, exitCode, obs, api, procs>>

\* One invocation of the program: no other process uses the file.
NoProcs == <<>>

RlIdle == [phase |-> "idle", label |-> "none", calls |-> 0, sleeps |-> 0, waitMs |-> 0, first |-> NoOutcome, second |-> NoOutcome, out |-> NoOutcome]

MgIdle == [phase |-> "idle", attempt |-> 0, polls |-> <<>>, queries |-> 0, sleeps |-> 0, ret |-> FALSE, warned |-> FALSE]

\* yoloArg is the third argument of the call ("unset": absent), branchName
\* the second; deleted tells how git.deleteRef settled ("ok", "throttled":
\* failed with 403 or 429, "failed": failed otherwise).
MpIdle == [phase |-> "idle", yoloArg |-> "unset", branchName |-> 0, useYolo |-> FALSE, commentCalls |-> 0, commentsDone |-> 0, mergeCalls |-> 0, deleteCalls |-> 0, deleted |-> "none", result |-> [yolo |-> FALSE, mergedAt |-> 0, deletedBranch |-> 0]]

\* branch is pr.branch (0: no PR yet; the PR of loop index i is on branch
\* i + 1); contentRead tells how repos.getContent of commitFile settled
\* while the commit is in flight ("ok", "throttled", "failed"); done lists
\* the steps of this iteration whose await returned.
WfIdle == [issueCreatedAt |-> 0, prCreatedAt |-> 0, branch |-> 0, contentRead |-> "none", canMerge |-> "unset", pollEnd |-> "none", warned |-> FALSE, prComments |-> 0, issueCalls |-> 0, prCalls |-> 0, state |-> "none", done |-> <<>>]

WorkflowPcs == {"createIssue", "commentIssue", "sleep_2000", "getRepo", "getRef", "createBranch", "getContent", "commitFile", "createPr", "sleep_1500", "commentPR", "sleep_3000", "poll", "mg_sleep", "mgReturned", "mp_sleep_1500", "mp_comment", "mp_sleep_1000", "mp_merge", "mp_deleteRef", "mpReturned", "thrown"}

\* scenario tells which remote calls of the run did not succeed so far:
\* "clean" (none), "pr2" (only calls of the PR creation of the second
\* iteration), "other".  A poll that is not mergeable counts as well.
\* issuesOk, prsOk and mergesOk count the createIssue, createPullRequest and
\* mergePullRequest calls that returned, commentsOk the comments posted
\* through commentManager.ts, reviewOk those of them posted by
\* mergePullRequest.
ObsInit == [started |-> 0, failed |-> 0, completed |-> 0, issueCalls |-> 0, prCalls |-> 0, startRuns |-> 0, endRuns |-> 0, recordCalls |-> 0, scenario |-> "clean", issuesOk |-> 0, prsOk |-> 0, mergesOk |-> 0, commentsOk |-> 0, reviewOk |-> 0]

\* The awaits of createPullRequest (prManager.ts).
PrPcs == {"getRepo", "getRef", "createBranch", "getContent", "commitFile", "createPr"}

\* The observation after a remote call settled; bad: it did not succeed.
noteOutcome(ob, bad, iter, at) ==
  IF ~bad THEN ob
  ELSE [ob EXCEPT !.scenario = IF iter = 1 /\ at \in PrPcs /\ @ # "other" THEN "pr2" ELSE "other"]

\* The observation after the wrapped call label, awaited at pc = at,
\* settled; returned: withRateLimit returned a value.
noteReturn(ob, label, at, returned) ==
  IF ~returned THEN ob
  ELSE [ob EXCEPT !.issuesOk = IF label = "create-issue" THEN @ + 1 ELSE @,
                  !.prsOk = IF label = "create-pr" THEN @ + 1 ELSE @,
                  !.commentsOk = IF label \in {"comment-issue", "comment-pr"} THEN @ + 1 ELSE @,
                  !.reviewOk = IF label = "comment-pr" /\ at = "mp_comment" THEN @ + 1 ELSE @]

\* The outcome o of a call made outside withRateLimit.
direct(o) == IF o.kind = "ok" THEN "ok" ELSE IF isRateLimited(o) THEN "throttled" ELSE "failed"

\* No call of the analytics interface yet.  t1, t2 and writable are the
\* inputs of the call, found is the kind of file loadPersistedData met
\* ("none": the call did not load), report the outcome of
\* writeMarkdownReport.
ApiIdle == [op |-> "none", threw |-> FALSE, ret |-> NoRun, stats |-> NoStats, t1 |-> 0, t2 |-> 0, yolo |-> FALSE, writable |-> TRUE, found |-> "none", report |-> "none"]

\* A record of an earlier invocation of the program.
PriorRun == [NoRun EXCEPT !.issuesCreated = 1, !.commentsPosted = 1, !.issueToFirstCommentMs = <<1>>]

\* What the analytics file can be when the process first reads it.
StoreFiles == {StoreFile("missing", emptyData), StoreFile("corrupt", emptyData), StoreFile("invalid", emptyData), StoreFile("valid", emptyData), StoreFile("valid", <<PriorRun>>)}

\* The file as the process finds it: its content is drawn when it is read
\* for the first time.
Found(f) == IF f.kind = "unread" THEN StoreFiles ELSE {f}

Configs == [maxIssuesPerRun : 1..MaxCap, maxPrsPerRun : 1..MaxCap, autoMerge : BOOLEAN, yoloMode : BOOLEAN, coAuthor : BOOLEAN]

Init ==
  /\ cfg \in Configs
  /\ pc = "main"
  /\ i = 0
  /\ iterations = 0
  /\ current = NoRun
  /\ store = StoreFile("unread", emptyData)
  /\ rl = RlIdle
  /\ mg = MgIdle
  /\ mp = MpIdle
  /\ wf = WfIdle
  /\ exitCode = -1
  /\ obs = ObsInit
  /\ api = ApiIdle
  /\ procs = NoProcs

\* ------------------------------------------------------------------------
\* githubClient.ts: withRateLimit
\* ------------------------------------------------------------------------

\* withRateLimit(label, fn) up to its first await: fn() is invoked once.
Invoke(label) == [RlIdle EXCEPT !.phase = "first", !.label = label, !.calls = 1]

\* The first fn() settled with outcome o: return it, or in the catch either
\* start the sleep before the single retry or rethrow.
withRateLimit_first(r, o) ==
  IF o.kind = "ok" THEN [r EXCEPT !.first = o, !.out = o, !.phase = "returned"]
  ELSE IF isRateLimited(o)
       THEN [r EXCEPT !.first = o, !.waitMs = retryAfterMs(o), !.sleeps = @ + 1, !.phase = "sleeping"]
       ELSE [r EXCEPT !.first = o, !.out = o, !.phase = "threw"]

\* sleep(waitMs) resolved: "return fn()" invokes the thunk a second time.
\* Variant: the retry re-enters the try block, so a call that keeps being
\* throttled is retried without end.
withRateLimit_retry_unbounded(r) == [r EXCEPT !.calls = @ + 1, !.phase = "first"]

withRateLimit_retry(r) == [r EXCEPT !.calls = @ + 1, !.phase = "second"]

\* Variant: after the retry the wrapper rethrows the error it caught first.
withRateLimit_second_rethrowsFirst(r, o) == [r EXCEPT !.second = o, !.out = r.first, !.phase = "threw"]

\* Variant: a retry loop, a throttled retry sleeps and retries again.
withRateLimit_second_retriesAgain(r, o) ==
  IF o.kind = "err" /\ (o.status = 403 \/ o.status = 429)
  THEN [r EXCEPT !.second = o, !.sleeps = @ + 1, !.phase = "sleeping"]
  ELSE [r EXCEPT !.second = o, !.out = o, !.phase = IF o.kind = "ok" THEN "returned" ELSE "threw"]

\* The retry settled with outcome o, which is the outcome of the wrapper.
withRateLimit_second(r, o) == [r EXCEPT !.second = o, !.out = o, !.phase = IF o.kind = "ok" THEN "returned" ELSE "threw"]

withRateLimit_FirstSettles ==
  /\ rl.phase = "first"
  /\ \E o \in ThunkOutcomes(rl.label) :
       /\ rl' = withRateLimit_first(rl, o)
       /\ obs' = noteReturn(noteOutcome(obs, o.kind = "err", i, pc), rl.label, pc, rl'.phase = "returned")
  /\ UNCHANGED <<cfg, pc, i, iterations, current, store, mg, mp, wf, exitCode, api, procs>>

withRateLimit_SleepDone ==
  /\ rl.phase = "sleeping"
  /\ rl' = withRateLimit_retry(rl)
  /\ mg' = IF rl.label = "check-mergeable" /\ rl'.calls > rl.calls THEN [mg EXCEPT !.queries = @ + 1] ELSE mg
  /\ UNCHANGED <<cfg, pc, i, iterations, current, store, mp, wf, exitCode, obs, api, procs>>

withRateLimit_SecondSettles ==
  /\ rl.phase = "second"
  /\ \E o \in ThunkOutcomes(rl.label) :
       /\ rl' = withRateLimit_second(rl, o)
       /\ obs' = noteReturn(noteOutcome(obs, o.kind = "err", i, pc), rl.label, pc, rl'.phase = "returned")
  /\ UNCHANGED <<cfg, pc, i, iterations, current, store, mg, mp, wf, exitCode, api, procs>>

\* ------------------------------------------------------------------------
\* Collaborators: each is one wrapped remote call
\* ------------------------------------------------------------------------

\* issueManager.ts, createIssue: issues.create through the executor.
createIssue == Invoke("create-issue")

\* commentManager.ts
commentOnIssue == Invoke("comment-issue")

commentOnPR == Invoke("comment-pr")

\* An exception raised by the code between two awaits of the workflow.
Raise ==
  /\ pc' = "thrown"
  /\ rl' = RlIdle

\* ------------------------------------------------------------------------
\* index.ts: main
\* ------------------------------------------------------------------------

\* Variant: the two caps are added up.
iterationCount_sum(c) == c.maxIssuesPerRun + c.maxPrsPerRun

\* const iterations = Math.min(config.maxIssuesPerRun, config.maxPrsPerRun)
iterationCount(c) == Min(c.maxIssuesPerRun, c.maxPrsPerRun)

\* Variant: main enters the loop without startRun().
main_Start_noStartRun ==
  /\ pc = "main"
  /\ iterations' = iterationCount(cfg)
  /\ i' = 0
  /\ pc' = "loop"
  /\ UNCHANGED <<cfg, current, store, rl, mg, mp, wf, exitCode, obs, api, procs>>

main_Start ==
  /\ pc = "main"
  /\ current' = startRun
  /\ iterations' = iterationCount(cfg)
  /\ i' = 0
  /\ pc' = "loop"
  /\ obs' = [obs EXCEPT !.startRuns = @ + 1]
  /\ api' = [ApiIdle EXCEPT !.op = "startRun"]
  /\ UNCHANGED <<cfg, store, rl, mg, mp, wf, exitCode, procs>>

\* Variant: the issue is recorded when createIssue() is called.
main_LoopEnter_recordsFirst ==
  /\ pc = "loop"
  /\ i < iterations
  /\ wf' = [WfIdle EXCEPT !.state = "running", !.issueCalls = 1]
  /\ mg' = MgIdle
  /\ mp' = MpIdle
  /\ rl' = createIssue
  /\ pc' = "createIssue"
  /\ current' = recordIssueCreated(current)
  /\ obs' = [obs EXCEPT !.started = @ + 1, !.issueCalls = @ + 1]
  /\ UNCHANGED <<cfg, i, iterations, store, exitCode, api, procs>>

\* Loop test passed: runSingleWorkflow() runs up to its first await,
\* the call of createIssue().
main_LoopEnter ==
  /\ pc = "loop"
  /\ i < iterations
  /\ wf' = [WfIdle EXCEPT !.state = "running", !.issueCalls = 1]
  /\ mg' = MgIdle
  /\ mp' = MpIdle
  /\ rl' = createIssue
  /\ pc' = "createIssue"
  /\ obs' = [obs EXCEPT !.started = @ + 1, !.issueCalls = @ + 1]
  /\ UNCHANGED <<cfg, i, iterations, current, store, exitCode, api, procs>>

\* Lines 71-75: pause before the next iteration, unless this was the last.
AfterTry ==
  IF i < iterations - 1
  THEN pc' = "pause" /\ i' = i
  ELSE pc' = "loop" /\ i' = i + 1

\* Variant: a failed iteration aborts the run (the loop is left).
main_Catch_aborts ==
  /\ pc \in WorkflowPcs
  /\ rl.phase = "threw" \/ pc = "thrown"
  /\ wf' = [wf EXCEPT !.state = "failed", !.issueCreatedAt = 0, !.prCreatedAt = 0, !.contentRead = "none", !.pollEnd = IF pc = "poll" THEN "failed" ELSE @]
  /\ obs' = [obs EXCEPT !.failed = @ + 1]
  /\ rl' = RlIdle
  /\ mg' = MgIdle
  /\ mp' = MpIdle
  /\ pc' = "loop"
  /\ i' = iterations
  /\ UNCHANGED <<cfg, iterations, current, store, exitCode, api, procs>>

\* Variant: no catch, the exception leaves main.
main_Catch_rethrows ==
  /\ pc \in WorkflowPcs
  /\ rl.phase = "threw" \/ pc = "thrown"
  /\ wf' = [wf EXCEPT !.state = "failed", !.issueCreatedAt = 0, !.prCreatedAt = 0, !.contentRead = "none", !.pollEnd = IF pc = "poll" THEN "failed" ELSE @]
  /\ obs' = [obs EXCEPT !.failed = @ + 1]
  /\ rl' = RlIdle
  /\ mg' = MgIdle
  /\ mp' = MpIdle
  /\ pc' = "rejected"
  /\ UNCHANGED <<cfg, i, iterations, current, store, exitCode, api, procs>>

\* Variant: the catch starts the accumulator afresh.
main_Catch_resets ==
  /\ pc \in WorkflowPcs
  /\ rl.phase = "threw" \/ pc = "thrown"
  /\ wf' = [wf EXCEPT !.state = "failed", !.issueCreatedAt = 0, !.prCreatedAt = 0, !.contentRead = "none", !.pollEnd = IF pc = "poll" THEN "failed" ELSE @]
  /\ obs' = [obs EXCEPT !.failed = @ + 1]
  /\ rl' = RlIdle
  /\ mg' = MgIdle
  /\ mp' = MpIdle
  /\ current' = startRun
  /\ AfterTry
  /\ UNCHANGED <<cfg, iterations, store, exitCode, api, procs>>

\* Variant: a failed comment on the issue is swallowed and the workflow
\* goes on with the PR.
main_Catch_resumes ==
  /\ pc \in WorkflowPcs
  /\ rl.phase = "threw" \/ pc = "thrown"
  /\ IF pc = "commentIssue"
     THEN /\ pc' = "sleep_2000"
          /\ i' = i
          /\ UNCHANGED <<wf, obs, mg, mp, procs>>
     ELSE /\ wf' = [wf EXCEPT !.state = "failed", !.issueCreatedAt = 0, !.prCreatedAt = 0, !.contentRead = "none", !.pollEnd = IF pc = "poll" THEN "failed" ELSE @]
          /\ obs' = [obs EXCEPT !.failed = @ + 1]
          /\ mg' = MgIdle
          /\ mp' = MpIdle
          /\ AfterTry
  /\ rl' = RlIdle
  /\ UNCHANGED <<cfg, iterations, current, store, exitCode, api, procs>>

\* The catch of main: an exception left runSingleWorkflow.
main_Catch ==
  /\ pc \in WorkflowPcs
  /\ rl.phase = "threw" \/ pc = "thrown"
  /\ wf' = [wf EXCEPT !.state = "failed", !.issueCreatedAt = 0, !.prCreatedAt = 0, !.contentRead = "none", !.pollEnd = IF pc = "poll" THEN "failed" ELSE @]
  /\ obs' = [obs EXCEPT !.failed = @ + 1]
  /\ rl' = RlIdle
  /\ mg' = MgIdle
  /\ mp' = MpIdle
  /\ AfterTry
  /\ UNCHANGED <<cfg, iterations, current, store, exitCode, api, procs>>

\* runSingleWorkflow returned normally.
main_AfterWorkflow ==
  /\ pc = "wfReturned"
  /\ obs' = [obs EXCEPT !.completed = @ + 1]
  /\ AfterTry
  /\ UNCHANGED <<cfg, iterations, current, store, rl, mg, mp, wf, exitCode, api, procs>>

main_AfterPause ==
  /\ pc = "pause"
  /\ i' = i + 1
  /\ pc' = "loop"
  /\ UNCHANGED <<cfg, iterations, current, store, rl, mg, mp, wf, exitCode, obs, api, procs>>

\* ------------------------------------------------------------------------
\* index.ts: runSingleWorkflow, steps 1 to 4
\* ------------------------------------------------------------------------

\* createIssue() returned: record it and post the quick-response comment.
wf_AfterCreateIssue ==
  /\ pc = "createIssue"
  /\ rl.phase = "returned"
  /\ IF ensureRunning(current)
     THEN /\ current' = recordIssueCreated(current)
          /\ wf' = [wf EXCEPT !.issueCreatedAt = rl.out.createdAt, !.done = Append(@, "CreateIssue")]
          /\ rl' = commentOnIssue
          /\ pc' = "commentIssue"
     ELSE Raise /\ UNCHANGED <<current, wf, procs>>
  /\ obs' = [obs EXCEPT !.recordCalls = @ + 1]
  /\ UNCHANGED <<cfg, i, iterations, store, mg, mp, exitCode, api, procs>>

\* quickResponseComment() returned: record the comment and the latency,
\* then pause 2 s before the PR pipeline.
wf_AfterCommentIssue ==
  /\ pc = "commentIssue"
  /\ rl.phase = "returned"
  /\ IF ensureRunning(current)
     THEN /\ current' = recordIssueToComment(recordCommentPosted(current), wf.issueCreatedAt, rl.out.createdAt)
          /\ wf' = [wf EXCEPT !.issueCreatedAt = 0, !.done = Append(@, "CommentOnIssue")]
          /\ rl' = RlIdle
          /\ pc' = "sleep_2000"
     ELSE Raise /\ UNCHANGED <<current, wf, procs>>
  /\ obs' = [obs EXCEPT !.recordCalls = @ + (IF ensureRunning(current) THEN 2 ELSE 1)]
  /\ UNCHANGED <<cfg, i, iterations, store, mg, mp, exitCode, api, procs>>

\* ------------------------------------------------------------------------
\* prManager.ts: createPullRequest, with getDefaultBranchSha, createBranch
\* and commitFile of githubClient.ts
\* ------------------------------------------------------------------------

\* sleep(2000) resolved: createPullRequest() starts with getDefaultBranchSha().
wf_CallCreatePullRequest ==
  /\ pc = "sleep_2000"
  /\ rl' = Invoke("get-repo")
  /\ pc' = "getRepo"
  /\ wf' = [wf EXCEPT !.prCalls = @ + 1]
  /\ obs' = [obs EXCEPT !.prCalls = @ + 1]
  /\ UNCHANGED <<cfg, i, iterations, current, store, mg, mp, exitCode, api, procs>>

getDefaultBranchSha_AfterGetRepo ==
  /\ pc = "getRepo"
  /\ rl.phase = "returned"
  /\ rl' = Invoke("get-ref")
  /\ pc' = "getRef"
  /\ UNCHANGED <<cfg, i, iterations, current, store, mg, mp, wf, exitCode, obs, api, procs>>

\* getDefaultBranchSha() returned: createBranch(branchName, baseSha).
createPullRequest_AfterGetRef ==
  /\ pc = "getRef"
  /\ rl.phase = "returned"
  /\ rl' = Invoke("create-branch")
  /\ pc' = "createBranch"
  /\ UNCHANGED <<cfg, i, iterations, current, store, mg, mp, wf, exitCode, obs, api, procs>>

\* createBranch() returned: commitFile() first reads the file, outside the
\* wrapper.
createPullRequest_AfterCreateBranch ==
  /\ pc = "createBranch"
  /\ rl.phase = "returned"
  /\ rl' = RlIdle
  /\ pc' = "getContent"
  /\ UNCHANGED <<cfg, i, iterations, current, store, mg, mp, wf, exitCode, obs, api, procs>>

\* repos.getContent settled: any failure is swallowed by the empty catch;
\* then the file is written through the wrapper.
commitFile_AfterGetContent ==
  /\ pc = "getContent"
  /\ \E o \in ThunkOutcomes("get-content") :
       /\ rl' = Invoke("commit-file")
       /\ pc' = "commitFile"
       /\ wf' = [wf EXCEPT !.contentRead = direct(o)]
       /\ obs' = noteOutcome(obs, o.kind = "err", i, pc)
  /\ UNCHANGED <<cfg, i, iterations, current, store, mg, mp, exitCode, api, procs>>

\* commitFile() returned: open the PR.
createPullRequest_AfterCommitFile ==
  /\ pc = "commitFile"
  /\ rl.phase = "returned"
  /\ rl' = Invoke("create-pr")
  /\ pc' = "createPr"
  /\ wf' = [wf EXCEPT !.contentRead = "none"]
  /\ UNCHANGED <<cfg, i, iterations, current, store, mg, mp, exitCode, obs, api, procs>>

\* createPullRequest() returned: record it (and the co-authored commit),
\* then pause 1.5 s.
wf_AfterCreatePullRequest ==
  /\ pc = "createPr"
  /\ rl.phase = "returned"
  /\ IF ensureRunning(current)
     THEN /\ current' = IF cfg.coAuthor THEN recordCoAuthoredCommit(recordPROpened(current)) ELSE recordPROpened(current)
          /\ wf' = [wf EXCEPT !.prCreatedAt = rl.out.createdAt, !.branch = i + 1, !.done = Append(@, "OpenPR")]
          /\ rl' = RlIdle
          /\ pc' = "sleep_1500"
     ELSE Raise /\ UNCHANGED <<current, wf, procs>>
  /\ obs' = [obs EXCEPT !.recordCalls = @ + (IF ensureRunning(current) /\ cfg.coAuthor THEN 2 ELSE 1)]
  /\ UNCHANGED <<cfg, i, iterations, store, mg, mp, exitCode, api, procs>>

\* sleep(1500) resolved: the review-style comment on the PR.
wf_CallCommentOnPR ==
  /\ pc = "sleep_1500"
  /\ rl' = commentOnPR
  /\ pc' = "commentPR"
  /\ UNCHANGED <<cfg, i, iterations, current, store, mg, mp, wf, exitCode, obs, api, procs>>

\* commentOnPR() returned: record it; with auto-merge pause 3 s, otherwise
\* the workflow returns.
wf_AfterCommentOnPR ==
  /\ pc = "commentPR"
  /\ rl.phase = "returned"
  /\ IF ensureRunning(current)
     THEN /\ current' = recordCommentPosted(current)
          /\ wf' = [wf EXCEPT !.prComments = @ + 1, !.state = IF cfg.autoMerge THEN @ ELSE "completed", !.done = Append(@, "CommentOnPR")]
          /\ rl' = RlIdle
          /\ pc' = IF cfg.autoMerge THEN "sleep_3000" ELSE "wfReturned"
     ELSE Raise /\ UNCHANGED <<current, wf, procs>>
  /\ obs' = [obs EXCEPT !.recordCalls = @ + 1]
  /\ UNCHANGED <<cfg, i, iterations, store, mg, mp, exitCode, api, procs>>

\* ------------------------------------------------------------------------
\* mergeManager.ts: isMergeable
\* ------------------------------------------------------------------------

\* Variant: only a truthy data.mergeable returns, false keeps polling.
isMergeable_poll_truthyOnly(g, m) ==
  IF m = "true" THEN [g EXCEPT !.polls = Append(@, m), !.ret = TRUE, !.phase = "returned"]
  ELSE [g EXCEPT !.polls = Append(@, m), !.sleeps = @ + 1, !.phase = "sleeping"]

\* Variant: the loop test lets one attempt too many through.
isMergeable_next_offByOne(g) ==
  IF g.attempt + 1 <= MAX_ATTEMPTS + 1
  THEN [g EXCEPT !.attempt = @ + 1, !.queries = @ + 1, !.phase = "polling"]
  ELSE [g EXCEPT !.attempt = @ + 1, !.warned = TRUE, !.ret = FALSE, !.phase = "returned"]

\* Variant: an undetermined status is resolved to "mergeable".
isMergeable_next_optimistic(g) ==
  IF g.attempt + 1 <= MAX_ATTEMPTS
  THEN [g EXCEPT !.attempt = @ + 1, !.queries = @ + 1, !.phase = "polling"]
  ELSE [g EXCEPT !.attempt = @ + 1, !.warned = TRUE, !.ret = TRUE, !.phase = "returned"]

\* The loop body after pulls.get returned data.mergeable = m on this
\* attempt: true and false return at once, null logs and sleeps DELAY_MS.
isMergeable_poll(g, m) ==
  IF m = "true" THEN [g EXCEPT !.polls = Append(@, m), !.ret = TRUE, !.phase = "returned"]
  ELSE IF m = "false" THEN [g EXCEPT !.polls = Append(@, m), !.ret = FALSE, !.phase = "returned"]
  ELSE [g EXCEPT !.polls = Append(@, m), !.sleeps = @ + 1, !.phase = "sleeping"]

\* Variant: the loop counter is not advanced, every attempt is the first.
isMergeable_next_sameAttempt(g) ==
  IF g.attempt <= MAX_ATTEMPTS
  THEN [g EXCEPT !.queries = @ + 1, !.phase = "polling"]
  ELSE [g EXCEPT !.warned = TRUE, !.ret = FALSE, !.phase = "returned"]

\* sleep(DELAY_MS) resolved: attempt++, then the loop test; past the
\* ceiling the loop ends, a warning is logged and false is returned.
isMergeable_next(g) ==
  IF g.attempt + 1 <= MAX_ATTEMPTS
  THEN [g EXCEPT !.attempt = @ + 1, !.queries = @ + 1, !.phase = "polling"]
  ELSE [g EXCEPT !.attempt = @ + 1, !.warned = TRUE, !.ret = FALSE, !.phase = "returned"]

\* sleep(3000) resolved: isMergeable(pr.number) starts its first attempt.
wf_CallIsMergeable ==
  /\ pc = "sleep_3000"
  /\ mg' = [MgIdle EXCEPT !.attempt = 1, !.queries = 1, !.phase = "polling"]
  /\ rl' = Invoke("check-mergeable")
  /\ pc' = "poll"
  /\ UNCHANGED <<cfg, i, iterations, current, store, mp, wf, exitCode, obs, api, procs>>

isMergeable_AfterPoll ==
  /\ pc = "poll"
  /\ rl.phase = "returned"
  /\ mg' = isMergeable_poll(mg, rl.out.mergeable)
  /\ rl' = RlIdle
  /\ pc' = IF mg'.phase = "returned" THEN "mgReturned" ELSE "mg_sleep"
  /\ obs' = noteOutcome(obs, rl.out.mergeable # "true", i, pc)
  /\ UNCHANGED <<cfg, i, iterations, current, store, mp, wf, exitCode, api, procs>>

isMergeable_AfterSleep ==
  /\ pc = "mg_sleep"
  /\ mg' = isMergeable_next(mg)
  /\ rl' = IF mg'.phase = "polling" THEN Invoke("check-mergeable") ELSE RlIdle
  /\ pc' = IF mg'.phase = "polling" THEN "poll" ELSE "mgReturned"
  /\ UNCHANGED <<cfg, i, iterations, current, store, mp, wf, exitCode, obs, api, procs>>

\* ------------------------------------------------------------------------
\* mergeManager.ts: mergePullRequest
\* ------------------------------------------------------------------------

\* Variant: yolo || config.yoloMode, an explicit false yields to the default.
effectiveYolo_defaultWins(yolo, yoloMode) == yolo = "true" \/ yoloMode

\* const useYolo = yolo ?? config.yoloMode ("unset": the argument is absent)
effectiveYolo(yolo, yoloMode) == IF yolo = "unset" THEN yoloMode ELSE yolo = "true"

\* mergePullRequest up to its first await: the reviewed path sleeps 1.5 s
\* before its comment, the YOLO path goes to the 1 s pause before the merge.
mergePullRequest_start(yolo, yoloMode) == [MpIdle EXCEPT !.phase = "running", !.useYolo = effectiveYolo(yolo, yoloMode)]

\* Variant: the review comment is posted whatever the policy.
mergePullRequest_firstAwait_alwaysComments(m) == "mp_sleep_1500"

mergePullRequest_firstAwait(m) == IF ~m.useYolo THEN "mp_sleep_1500" ELSE "mp_sleep_1000"

\* Variant: a PR that is not mergeable makes the workflow throw.
wf_AfterIsMergeable_failsOnFalse ==
  /\ pc = "mgReturned"
  /\ wf' = [wf EXCEPT !.canMerge = IF mg.ret THEN "true" ELSE "false",
                      !.pollEnd = mg.polls[Len(mg.polls)],
                      !.warned = ~mg.ret,
                      !.done = Append(@, "CheckMergeability")]
  /\ mp' = IF mg.ret
           THEN [mergePullRequest_start(IF cfg.yoloMode THEN "true" ELSE "false", cfg.yoloMode) EXCEPT !.yoloArg = IF cfg.yoloMode THEN "true" ELSE "false", !.branchName = wf.branch]
           ELSE mp
  /\ pc' = IF mg.ret THEN mergePullRequest_firstAwait(mp') ELSE "thrown"
  /\ mg' = MgIdle
  /\ UNCHANGED <<cfg, i, iterations, current, store, rl, exitCode, obs, api, procs>>

\* isMergeable() returned: merge when it said true, otherwise warn and let
\* the workflow return.
wf_AfterIsMergeable ==
  /\ pc = "mgReturned"
  /\ wf' = [wf EXCEPT !.canMerge = IF mg.ret THEN "true" ELSE "false",
                      !.pollEnd = mg.polls[Len(mg.polls)],
                      !.warned = ~mg.ret,
                      !.state = IF mg.ret THEN @ ELSE "completed",
                      !.done = Append(@, "CheckMergeability")]
  /\ mp' = IF mg.ret
           THEN [mergePullRequest_start(IF cfg.yoloMode THEN "true" ELSE "false", cfg.yoloMode) EXCEPT !.yoloArg = IF cfg.yoloMode THEN "true" ELSE "false", !.branchName = wf.branch]
           ELSE mp
  /\ pc' = IF mg.ret THEN mergePullRequest_firstAwait(mp') ELSE "wfReturned"
  /\ mg' = MgIdle
  /\ UNCHANGED <<cfg, i, iterations, current, store, rl, exitCode, obs, api, procs>>

\* Reviewed path: sleep(1500) resolved, commentOnPR(prNumber) is called.
mergePullRequest_CallComment ==
  /\ pc = "mp_sleep_1500"
  /\ rl' = commentOnPR
  /\ mp' = [mp EXCEPT !.commentCalls = @ + 1]
  /\ pc' = "mp_comment"
  /\ UNCHANGED <<cfg, i, iterations, current, store, mg, wf, exitCode, obs, api, procs>>

\* Variant: the review comment is reported to the accumulator.
mergePullRequest_AfterComment_records ==
  /\ pc = "mp_comment"
  /\ rl.phase = "returned"
  /\ mp' = [mp EXCEPT !.commentsDone = @ + 1]
  /\ wf' = [wf EXCEPT !.prComments = @ + 1]
  /\ current' = recordCommentPosted(current)
  /\ rl' = RlIdle
  /\ pc' = "mp_sleep_1000"
  /\ UNCHANGED <<cfg, i, iterations, store, mg, exitCode, obs, api, procs>>

\* Reviewed path: the comment was posted; pause 1 s.
mergePullRequest_AfterComment ==
  /\ pc = "mp_comment"
  /\ rl.phase = "returned"
  /\ mp' = [mp EXCEPT !.commentsDone = @ + 1]
  /\ wf' = [wf EXCEPT !.prComments = @ + 1]
  /\ rl' = RlIdle
  /\ pc' = "mp_sleep_1000"
  /\ UNCHANGED <<cfg, i, iterations, current, store, mg, exitCode, obs, api, procs>>

\* sleep(1000) resolved: pulls.merge through the wrapper.
mergePullRequest_CallMerge ==
  /\ pc = "mp_sleep_1000"
  /\ rl' = Invoke("merge-pr")
  /\ mp' = [mp EXCEPT !.mergeCalls = @ + 1]
  /\ pc' = "mp_merge"
  /\ UNCHANGED <<cfg, i, iterations, current, store, mg, wf, exitCode, obs, api, procs>>

\* Variant: the branch is deleted whether the merge returned or threw.
mergePullRequest_AfterMerge_deletesAnyway ==
  /\ pc = "mp_merge"
  /\ rl.phase \in {"returned", "threw"}
  /\ rl' = RlIdle
  /\ mp' = [mp EXCEPT !.deleteCalls = @ + 1]
  /\ pc' = "mp_deleteRef"
  /\ UNCHANGED <<cfg, i, iterations, current, store, mg, wf, exitCode, obs, api, procs>>

\* The merge returned: deleteBranch() calls git.deleteRef outside the wrapper.
mergePullRequest_AfterMerge ==
  /\ pc = "mp_merge"
  /\ rl.phase = "returned"
  /\ rl' = RlIdle
  /\ mp' = [mp EXCEPT !.deleteCalls = @ + 1]
  /\ pc' = "mp_deleteRef"
  /\ UNCHANGED <<cfg, i, iterations, current, store, mg, wf, exitCode, obs, api, procs>>

\* Variant: a failed deletion leaves mergePullRequest as an exception.
mergePullRequest_AfterDeleteBranch_propagates ==
  /\ pc = "mp_deleteRef"
  /\ \E o \in ThunkOutcomes("delete-ref"), now \in Times :
       /\ mp' = [mp EXCEPT !.deleted = direct(o),
                           !.result = [yolo |-> mp.useYolo, mergedAt |-> now, deletedBranch |-> mp.branchName],
                           !.phase = IF o.kind = "ok" THEN "returned" ELSE "threw"]
       /\ obs' = [noteOutcome(obs, o.kind = "err", i, pc) EXCEPT !.mergesOk = IF o.kind = "ok" THEN @ + 1 ELSE @]
       /\ pc' = IF o.kind = "ok" THEN "mpReturned" ELSE "thrown"
  /\ UNCHANGED <<cfg, i, iterations, current, store, rl, mg, wf, exitCode, api, procs>>

\* git.deleteRef settled: a failure is logged and swallowed; the
\* MergeResult is built with mergedAt = nowISO().
mergePullRequest_AfterDeleteBranch ==
  /\ pc = "mp_deleteRef"
  /\ \E o \in ThunkOutcomes("delete-ref"), now \in Times :
       /\ mp' = [mp EXCEPT !.deleted = direct(o),
                           !.result = [yolo |-> mp.useYolo, mergedAt |-> now, deletedBranch |-> mp.branchName],
                           !.phase = "returned"]
       /\ obs' = [noteOutcome(obs, o.kind = "err", i, pc) EXCEPT !.mergesOk = @ + 1]
  /\ pc' = "mpReturned"
  /\ UNCHANGED <<cfg, i, iterations, current, store, rl, mg, wf, exitCode, api, procs>>

\* mergePullRequest() returned: record the merge, the closed issue and the
\* PR-to-merge latency; the workflow returns.
wf_AfterMerge ==
  /\ pc = "mpReturned"
  /\ IF ensureRunning(current)
     THEN /\ current' = recordPRToMerge(recordIssueClosed(recordPRMerged(current, mp.result.yolo)), wf.prCreatedAt, mp.result.mergedAt)
          /\ wf' = [wf EXCEPT !.state = "completed", !.prCreatedAt = 0, !.done = Append(@, "Merge")]
          /\ mp' = MpIdle
          /\ pc' = "wfReturned"
          /\ rl' = rl
     ELSE Raise /\ UNCHANGED <<current, wf, mp, procs>>
  /\ obs' = [obs EXCEPT !.recordCalls = @ + (IF ensureRunning(current) THEN 3 ELSE 1)]
  /\ UNCHANGED <<cfg, i, iterations, store, mg, exitCode, api, procs>>

\* ------------------------------------------------------------------------
\* analytics.ts: endRun; index.ts: the end of main and the entry point
\* ------------------------------------------------------------------------

\* Variant: a report that cannot be written makes main reject.
main_settles_reportFatal(endRunThrew, reportWritten) == IF endRunThrew \/ ~reportWritten THEN "rejected" ELSE "resolved"

\* How main settles: it rejects when endRun() throws; a failure of
\* writeMarkdownReport() is caught (log.warn) and main resolves.
main_settles(endRunThrew, reportWritten) == IF endRunThrew THEN "rejected" ELSE "resolved"

\* The loop is over (lines 79-94, no await): endRun() finalizes and persists
\* the record; when it throws main rejects.  Otherwise printConsoleSummary()
\* reads the statistics back from the file and writeMarkdownReport() writes
\* the report, where a failure is caught and logged; main resolves.
main_Finish ==
  /\ pc = "loop"
  /\ ~(i < iterations)
  /\ \E f \in Found(store), writable \in BOOLEAN, reportWritten \in BOOLEAN :
       LET e == endRun(current, f, writable)
       IN /\ current' = e.current
          /\ store' = e.store
          /\ pc' = main_settles(e.threw, reportWritten)
          /\ api' = [ApiIdle EXCEPT !.op = "endRun", !.threw = e.threw, !.ret = e.ret, !.writable = writable,
                                    !.found = IF current.active THEN f.kind ELSE "none",
                                    !.stats = IF e.threw THEN NoStats ELSE getAggregateStats(e.store),
                                    !.report = IF e.threw THEN "none" ELSE IF reportWritten THEN "written" ELSE "failed"]
  /\ obs' = [obs EXCEPT !.endRuns = @ + 1]
  /\ UNCHANGED <<cfg, i, iterations, rl, mg, mp, wf, exitCode, procs>>

\* Variant: a run with a failed iteration exits with code 1.
process_Exit_failsOnFailure ==
  /\ pc \in {"resolved", "rejected"}
  /\ exitCode' = IF pc = "resolved" /\ obs.failed = 0 THEN 0 ELSE 1
  /\ pc' = "exited"
  /\ UNCHANGED <<cfg, i, iterations, current, store, rl, mg, mp, wf, obs, api, procs>>

\* main().then(() => process.exit(0)).catch(() => process.exit(1))
process_Exit ==
  /\ pc \in {"resolved", "rejected"}
  /\ exitCode' = IF pc = "resolved" THEN 0 ELSE 1
  /\ pc' = "exited"
  /\ UNCHANGED <<cfg, i, iterations, current, store, rl, mg, mp, wf, obs, api, procs>>

Next ==
  \/ main_Start
  \/ main_LoopEnter
  \/ main_Catch
  \/ main_AfterWorkflow
  \/ main_AfterPause
  \/ main_Finish
  \/ process_Exit
  \/ withRateLimit_FirstSettles
  \/ withRateLimit_SleepDone
  \/ withRateLimit_SecondSettles
  \/ wf_AfterCreateIssue
  \/ wf_AfterCommentIssue
  \/ wf_CallCreatePullRequest
  \/ getDefaultBranchSha_AfterGetRepo
  \/ createPullRequest_AfterGetRef
  \/ createPullRequest_AfterCreateBranch
  \/ commitFile_AfterGetContent
  \/ createPullRequest_AfterCommitFile
  \/ wf_AfterCreatePullRequest
  \/ wf_CallCommentOnPR
  \/ wf_AfterCommentOnPR
  \/ wf_CallIsMergeable
  \/ isMergeable_AfterPoll
  \/ isMergeable_AfterSleep
  \/ wf_AfterIsMergeable
  \/ mergePullRequest_CallComment
  \/ mergePullRequest_AfterComment
  \/ mergePullRequest_CallMerge
  \/ mergePullRequest_AfterMerge
  \/ mergePullRequest_AfterDeleteBranch
  \/ wf_AfterMerge

Spec == Init /\ [][Next]_vars

\* The run under the assumption that every remote call and every sleep
\* settles: each action is the continuation of the program after the
\* promise it awaits settled, and the program awaits one promise at a time.
SpecFair == Spec /\ WF_vars(Next)

\* ------------------------------------------------------------------------
\* analytics.ts as a module: its exported functions called in any order
\* ------------------------------------------------------------------------

\* The configuration of the caller plays no part in analytics.ts.
ApiCfg == [maxIssuesPerRun |-> 1, maxPrsPerRun |-> 1, autoMerge |-> FALSE, yoloMode |-> FALSE, coAuthor |-> FALSE]

InitAnalytics ==
  /\ cfg = ApiCfg
  /\ pc = "api"
  /\ i = 0
  /\ iterations = 0
  /\ current = NoRun
  /\ store \in StoreFiles
  /\ rl = RlIdle
  /\ mg = MgIdle
  /\ mp = MpIdle
  /\ wf = WfIdle
  /\ exitCode = -1
  /\ obs = ObsInit
  /\ api = ApiIdle
  /\ procs = NoProcs

\* Exploration stops at MaxRecordCalls calls of record* functions and at
\* MaxRuns records in the file.
CanRecord == obs.recordCalls < MaxRecordCalls

CanEnd == Len(store.runs) < MaxRuns

api_startRun ==
  /\ pc = "api"
  /\ current' = startRun
  /\ api' = [ApiIdle EXCEPT !.op = "startRun"]
  /\ UNCHANGED <<cfg, pc, i, iterations, store, rl, mg, mp, wf, exitCode, obs, procs>>

\* A record* function: ensureRunning() throws or returns the accumulator,
\* which the function then updates to rec.
api_record(op, rec, t1, t2, yolo) ==
  /\ pc = "api"
  /\ CanRecord
  /\ IF ensureRunning(current)
     THEN /\ current' = rec
          /\ api' = [ApiIdle EXCEPT !.op = op, !.t1 = t1, !.t2 = t2, !.yolo = yolo]
     ELSE /\ current' = current
          /\ api' = [ApiIdle EXCEPT !.op = op, !.t1 = t1, !.t2 = t2, !.yolo = yolo, !.threw = TRUE]
  /\ obs' = [obs EXCEPT !.recordCalls = @ + 1]
  /\ UNCHANGED <<cfg, pc, i, iterations, store, rl, mg, mp, wf, exitCode, procs>>

api_recordIssueCreated == api_record("recordIssueCreated", recordIssueCreated(current), 0, 0, FALSE)

api_recordIssueClosed == api_record("recordIssueClosed", recordIssueClosed(current), 0, 0, FALSE)

api_recordPROpened == api_record("recordPROpened", recordPROpened(current), 0, 0, FALSE)

api_recordPRMerged == \E yolo \in BOOLEAN : api_record("recordPRMerged", recordPRMerged(current, yolo), 0, 0, yolo)

api_recordCommentPosted == api_record("recordCommentPosted", recordCommentPosted(current), 0, 0, FALSE)

api_recordCoAuthoredCommit == api_record("recordCoAuthoredCommit", recordCoAuthoredCommit(current), 0, 0, FALSE)

api_recordIssueToComment == \E t1 \in Times, t2 \in Times : api_record("recordIssueToComment", recordIssueToComment(current, t1, t2), t1, t2, FALSE)

api_recordPRToMerge == \E t1 \in Times, t2 \in Times : api_record("recordPRToMerge", recordPRToMerge(current, t1, t2), t1, t2, FALSE)

api_endRun ==
  /\ pc = "api"
  /\ ~current.active \/ CanEnd
  /\ \E writable \in BOOLEAN :
       LET e == endRun(current, store, writable)
       IN /\ current' = e.current
          /\ store' = e.store
          /\ api' = [ApiIdle EXCEPT !.op = "endRun", !.threw = e.threw, !.ret = e.ret, !.writable = writable,
                                    !.found = IF current.active THEN store.kind ELSE "none"]
  /\ UNCHANGED <<cfg, pc, i, iterations, rl, mg, mp, wf, exitCode, obs, procs>>

api_getAggregateStats ==
  /\ pc = "api"
  /\ api' = [ApiIdle EXCEPT !.op = "getAggregateStats", !.stats = getAggregateStats(store), !.found = store.kind]
  /\ UNCHANGED <<cfg, pc, i, iterations, current, store, rl, mg, mp, wf, exitCode, obs, procs>>

NextAnalytics ==
  \/ api_startRun
  \/ api_recordIssueCreated
  \/ api_recordIssueClosed
  \/ api_recordPROpened
  \/ api_recordPRMerged
  \/ api_recordCommentPosted
  \/ api_recordCoAuthoredCommit
  \/ api_recordIssueToComment
  \/ api_recordPRToMerge
  \/ api_endRun
  \/ api_getAggregateStats

SpecAnalytics == InitAnalytics /\ [][NextAnalytics]_vars

\* ------------------------------------------------------------------------
\* mergeManager.ts: mergePullRequest called on its own, with any flag
\* ------------------------------------------------------------------------

\* A run is in flight and a PR is open on branch 1.
InitMerge ==
  /\ cfg \in Configs
  /\ pc = "mergeCall"
  /\ i = 0
  /\ iterations = 1
  /\ current = startRun
  /\ store = StoreFile("unread", emptyData)
  /\ rl = RlIdle
  /\ mg = MgIdle
  /\ mp = MpIdle
  /\ wf \in {[WfIdle EXCEPT !.state = "running", !.branch = 1, !.prCreatedAt = t, !.done = <<"CreateIssue", "CommentOnIssue", "OpenPR", "CommentOnPR", "CheckMergeability">>] : t \in Times}
  /\ exitCode = -1
  /\ obs = ObsInit
  /\ api = ApiIdle
  /\ procs = NoProcs

\* mergePullRequest(prNumber, branchName, yolo) with yolo true, false or
\* absent, up to its first await.
merge_Call ==
  /\ pc = "mergeCall"
  /\ \E yolo \in {"unset", "true", "false"} :
       mp' = [mergePullRequest_start(yolo, cfg.yoloMode) EXCEPT !.yoloArg = yolo, !.branchName = wf.branch]
  /\ pc' = mergePullRequest_firstAwait(mp')
  /\ UNCHANGED <<cfg, i, iterations, current, store, rl, mg, wf, exitCode, obs, api, procs>>

NextMerge ==
  \/ merge_Call
  \/ mergePullRequest_CallComment
  \/ mergePullRequest_AfterComment
  \/ mergePullRequest_CallMerge
  \/ mergePullRequest_AfterMerge
  \/ mergePullRequest_AfterDeleteBranch
  \/ wf_AfterMerge
  \/ withRateLimit_FirstSettles
  \/ withRateLimit_SleepDone
  \/ withRateLimit_SecondSettles

SpecMerge == InitMerge /\ [][NextMerge]_vars

\* ------------------------------------------------------------------------
\* Two invocations of the program on one analytics file
\* ------------------------------------------------------------------------

\* Each invocation is a process of its own, with its own `current`; the
\* file is what they share.  readFileSync and writeFileSync of one endRun
\* are two system calls, between which the other process can run.
Procs == {1, 2}

\* at: where the process is ("main": before startRun, "running": between
\* startRun and endRun, "loaded": inside endRun, after loadPersistedData,
\* "done": endRun returned); allData: what loadPersistedData returned;
\* ret: what endRun returned; saved: the rank of its write among the
\* writes to the file (0: has not written).
ProcIdle == [at |-> "main", current |-> NoRun, allData |-> emptyData, ret |-> NoRun, saved |-> 0]

InitTwo ==
  /\ cfg = ApiCfg
  /\ pc = "two"
  /\ i = 0
  /\ iterations = 0
  /\ current = NoRun
  /\ store \in StoreFiles
  /\ rl = RlIdle
  /\ mg = MgIdle
  /\ mp = MpIdle
  /\ wf = WfIdle
  /\ exitCode = -1
  /\ obs = ObsInit
  /\ api = ApiIdle
  /\ procs = [p \in Procs |-> ProcIdle]

\* The events a process has recorded.
Recorded(c) == c.issuesCreated + c.prsOpened

\* main: startRun().
two_startRun(p) ==
  /\ procs[p].at = "main"
  /\ procs' = [procs EXCEPT ![p].at = "running", ![p].current = startRun]
  /\ UNCHANGED <<cfg, pc, i, iterations, current, store, rl, mg, mp, wf, exitCode, obs, api>>

\* runSingleWorkflow: a step returned and is recorded.
two_record(p) ==
  /\ procs[p].at = "running"
  /\ Recorded(procs[p].current) < MaxRecordCalls
  /\ \E c \in {recordIssueCreated(procs[p].current), recordPROpened(procs[p].current)} :
       procs' = [procs EXCEPT ![p].current = c]
  /\ UNCHANGED <<cfg, pc, i, iterations, current, store, rl, mg, mp, wf, exitCode, obs, api>>

\* endRun, up to the return of loadPersistedData().
two_endRun_load(p) ==
  /\ procs[p].at = "running"
  /\ procs' = [procs EXCEPT ![p].at = "loaded", ![p].allData = loadPersistedData(store)]
  /\ UNCHANGED <<cfg, pc, i, iterations, current, store, rl, mg, mp, wf, exitCode, obs, api>>

\* Variant: the file is read again at the moment it is written.
two_endRun_save_reloads(p) ==
  /\ procs[p].at = "loaded"
  /\ store' = savePersistedData(Append(loadPersistedData(store), finalize(procs[p].current)))
  /\ procs' = [procs EXCEPT ![p].at = "done", ![p].ret = finalize(procs[p].current), ![p].current = NoRun,
                            ![p].saved = 1 + Cardinality({q \in Procs : procs[q].saved > 0})]
  /\ UNCHANGED <<cfg, pc, i, iterations, current, rl, mg, mp, wf, exitCode, obs, api>>

\* endRun, the rest: allData.runs.push(record), savePersistedData(allData),
\* current = null, return record.
two_endRun_save(p) ==
  /\ procs[p].at = "loaded"
  /\ store' = savePersistedData(Append(procs[p].allData, finalize(procs[p].current)))
  /\ procs' = [procs EXCEPT ![p].at = "done", ![p].ret = finalize(procs[p].current), ![p].current = NoRun,
                            ![p].saved = 1 + Cardinality({q \in Procs : procs[q].saved > 0})]
  /\ UNCHANGED <<cfg, pc, i, iterations, current, rl, mg, mp, wf, exitCode, obs, api>>

NextTwo ==
  \/ \E p \in Procs : two_startRun(p)
  \/ \E p \in Procs : two_record(p)
  \/ \E p \in Procs : two_endRun_load(p)
  \/ \E p \in Procs : two_endRun_save(p)

SpecTwo == InitTwo /\ [][NextTwo]_vars

\* ------------------------------------------------------------------------
\* Properties
\* ------------------------------------------------------------------------

Throttled(o) == o.kind = "err" /\ o.status \in {403, 429}

RlDone == rl.phase \in {"returned", "threw"}

\* C1: withRateLimit, first invocation throttled (403 or 429) and second
\* invocation fulfilled: the wrapper returns the second invocation's
\* result, after exactly one sleep and exactly two invocations.
C1_RetryThenSuccess ==
  (Throttled(rl.first) /\ rl.second.kind = "ok")
    => /\ rl.phase = "returned"
       /\ rl.out = rl.second
       /\ rl.sleeps = 1
       /\ rl.calls = 2

C1_Witness ==
  /\ rl.phase = "returned"
  /\ rl.first = Err(429, "2")
  /\ rl.second.kind = "ok"
  /\ rl.out = rl.second
  /\ rl.calls = 2
  /\ rl.sleeps = 1
  /\ rl.waitMs = 2000

\* C2: withRateLimit, once the first invocation was throttled: at most two
\* invocations and one sleep in the call, and when the call is over its
\* outcome is the outcome of the second invocation, whatever that is.
C2_SecondOutcomeIsFinal ==
  Throttled(rl.first)
    => /\ rl.calls <= 2
       /\ rl.sleeps = 1
       /\ rl.phase \in {"sleeping", "second", "returned", "threw"}
       /\ rl.phase = "sleeping" => rl.calls = 1
       /\ RlDone => /\ rl.calls = 2
                    /\ rl.second.kind \in {"ok", "err"}
                    /\ rl.out = rl.second
                    /\ rl.phase = (IF rl.second.kind = "ok" THEN "returned" ELSE "threw")

C2_Witness ==
  /\ rl.phase = "threw"
  /\ rl.first = Err(403, "absent")
  /\ rl.second = Err(429, "2")
  /\ rl.out = rl.second
  /\ rl.calls = 2
  /\ rl.sleeps = 1

\* C3: withRateLimit, first invocation failed with something that is not a
\* throttling signal (another status, or no status): that failure is thrown
\* to the caller, with one invocation and no sleep.
C3_OtherFailurePropagates ==
  (rl.first.kind = "err" /\ rl.first.status \notin {403, 429})
    => /\ rl.phase = "threw"
       /\ rl.out = rl.first
       /\ rl.calls = 1
       /\ rl.sleeps = 0
       /\ rl.second = NoOutcome

C3_Witness ==
  /\ rl.phase = "threw"
  /\ rl.first = Err(0, "absent")
  /\ rl.out = rl.first
  /\ rl.calls = 1
  /\ rl.sleeps = 0

AllUnknown(polls) == \A k \in 1..Len(polls) : polls[k] = "null"

\* C4: isMergeable, polls that do not fail: every poll before the last is
\* unknown, a poll that is not unknown ends the call at once (true for
\* mergeable, false for not mergeable), and the call returns true exactly
\* when its last poll, one of the first 5, reported mergeable.
C4_FirstSettledPollDecides ==
  LET n == Len(mg.polls) IN
    /\ \A k \in 1..n : mg.polls[k] # "null" => (k = n /\ mg.phase = "returned")
    /\ mg.phase = "returned"
         => /\ n \in 1..MAX_ATTEMPTS
            /\ mg.ret = (mg.polls[n] = "true")
            /\ mg.polls[n] = "null" => n = MAX_ATTEMPTS
    /\ (n > 0 /\ mg.polls[n] = "false") => (mg.phase = "returned" /\ ~mg.ret)
    /\ (n > 0 /\ mg.polls[n] = "true") => (mg.phase = "returned" /\ mg.ret)

C4_Witness ==
  /\ pc = "mgReturned"
  /\ mg.polls = <<"null", "null", "true">>
  /\ mg.queries = 3
  /\ mg.ret

\* C5: isMergeable, the first 5 polls all unknown: there is no 6th poll,
\* the call returns false with a warning, and a call whose last poll was
\* unknown never returns true.
C5_UnknownResolvesToFalse ==
  LET n == Len(mg.polls) IN
    /\ n <= MAX_ATTEMPTS
    /\ mg.attempt <= MAX_ATTEMPTS + 1
    /\ (n = MAX_ATTEMPTS /\ AllUnknown(mg.polls)) => mg.phase \in {"sleeping", "returned"}
    /\ (mg.phase = "polling") => n < MAX_ATTEMPTS
    /\ (mg.phase = "returned" /\ mg.polls[n] = "null")
         => /\ n = MAX_ATTEMPTS
            /\ ~mg.ret
            /\ mg.warned
    /\ mg.warned => (mg.phase = "returned" /\ ~mg.ret /\ AllUnknown(mg.polls))

C5_Witness ==
  /\ pc = "mgReturned"
  /\ mg.polls = <<"null", "null", "null", "null", "null">>
  /\ mg.queries = MAX_ATTEMPTS
  /\ ~mg.ret
  /\ mg.warned

MergePcs == {"mp_sleep_1500", "mp_comment", "mp_sleep_1000", "mp_merge", "mp_deleteRef", "mpReturned"}

\* C6: the merge of a pull request is started only with auto-merge enabled
\* and after isMergeable returned true for it in the same iteration; an
\* iteration whose polling ended not mergeable, unknown or in a failure
\* starts no merge.
C6_MergeOnlyWhenMergeable ==
  /\ (pc \in MergePcs \/ mp.phase # "idle" \/ rl.label = "merge-pr")
       => /\ cfg.autoMerge
          /\ wf.canMerge = "true"
          /\ wf.pollEnd = "true"
  /\ wf.pollEnd \in {"false", "null", "failed"}
       => /\ pc \notin MergePcs
          /\ mp = MpIdle
          /\ rl.label # "merge-pr"
          /\ wf.canMerge # "true"

C6_Witness ==
  /\ pc = "mp_merge"
  /\ rl.label = "merge-pr"
  /\ rl.phase = "first"
  /\ cfg.autoMerge
  /\ wf.canMerge = "true"
  /\ wf.pollEnd = "true"

\* C7: mergePullRequest: under YOLO commentOnPR is never called in the
\* call; under the reviewed policy it is called once, and it has returned
\* successfully before the merge operation is invoked.
C7_CommentOnlyOnReviewedPath ==
  /\ mp.useYolo => (mp.commentCalls = 0 /\ mp.commentsDone = 0 /\ pc \notin {"mp_sleep_1500", "mp_comment"})
  /\ mp.commentCalls <= 1
  /\ mp.commentsDone <= mp.commentCalls
  /\ (mp.phase # "idle" /\ ~mp.useYolo /\ mp.mergeCalls > 0) => (mp.commentCalls = 1 /\ mp.commentsDone = 1)
  /\ (mp.phase # "idle" /\ ~mp.useYolo /\ pc # "mp_sleep_1500") => mp.commentCalls = 1
  /\ mp.mergeCalls <= 1

C7_Witness ==
  /\ pc = "mp_merge"
  /\ rl.label = "merge-pr"
  /\ ~mp.useYolo
  /\ mp.commentCalls = 1
  /\ mp.commentsDone = 1
  /\ mp.mergeCalls = 1

\* C8: in a run whose policy is YOLO, when the merge operation of a pull
\* request is invoked the run has posted no comment on that pull request.
C8_YoloMergeHasNoComment ==
  (cfg.yoloMode /\ rl.label = "merge-pr" /\ rl.phase # "idle") => wf.prComments = 0

Finished == pc \in {"resolved", "rejected", "exited"}

\* C9: a failure of any step ends its iteration only: the next iteration is
\* still started, and when the loop is over every configured iteration has
\* been started, each of them ended as failed or as completed.
C9_EveryIterationAttempted ==
  /\ obs.started = (IF pc \in WorkflowPcs \cup {"wfReturned", "pause"} THEN i + 1 ELSE i)
  /\ obs.failed + obs.completed = (IF pc \in WorkflowPcs \cup {"wfReturned"} THEN obs.started - 1 ELSE obs.started)
  /\ Finished => /\ obs.started = Min(cfg.maxIssuesPerRun, cfg.maxPrsPerRun)
                 /\ obs.failed + obs.completed = obs.started

C9_Witness ==
  /\ pc = "createIssue"
  /\ obs.started = 2
  /\ obs.failed = 1
  /\ obs.completed = 0

\* C10: a run makes min(maxIssuesPerRun, maxPrsPerRun) iterations, each
\* calling createIssue once and createPullRequest at most once, so neither
\* cap is exceeded.
C10_IterationsAreTheMinimum ==
  /\ obs.started <= Min(cfg.maxIssuesPerRun, cfg.maxPrsPerRun)
  /\ Finished => obs.started = Min(cfg.maxIssuesPerRun, cfg.maxPrsPerRun)
  /\ obs.issueCalls = obs.started
  /\ obs.prCalls <= obs.started
  /\ wf.state # "none" => (wf.issueCalls = 1 /\ wf.prCalls <= 1)
  /\ obs.issueCalls <= cfg.maxIssuesPerRun
  /\ obs.prCalls <= cfg.maxPrsPerRun

C10_Witness ==
  /\ pc = "exited"
  /\ cfg.maxIssuesPerRun = 1
  /\ cfg.maxPrsPerRun = 2
  /\ obs.started = 1
  /\ obs.issueCalls = 1
  /\ obs.prCalls = 1

\* ------------------------------------------------------------------------
\* The run and the analytics accumulator
\* ------------------------------------------------------------------------

\* C11: in every run startRun is called once, before the first iteration,
\* and endRun exactly once, after every iteration has ended (completed or
\* failed); no record* operation is called after endRun.
C11_StartOnceEndOnce ==
  /\ [](/\ obs.startRuns <= 1
        /\ obs.endRuns <= 1
        /\ obs.started >= 1 => obs.startRuns = 1
        /\ obs.endRuns = 1 => /\ obs.startRuns = 1
                              /\ obs.started = iterations
                              /\ obs.completed + obs.failed = iterations
        /\ Finished => obs.endRuns = 1)
  /\ [][obs.endRuns >= 1 => obs'.recordCalls = obs.recordCalls]_vars

C11_Witness ==
  /\ pc = "exited"
  /\ obs.startRuns = 1
  /\ obs.endRuns = 1
  /\ obs.completed = 1
  /\ obs.failed = 1
  /\ obs.recordCalls > 0

\* Two iterations, auto-merge on, YOLO off.
TwoIterationSetup == iterations = 2 /\ cfg.autoMerge /\ ~cfg.yoloMode

\* endRun returned to main: api.ret is the finalized record of the run.
Finalized == pc \in {"resolved", "exited"} /\ api.op = "endRun" /\ ~api.threw

\* C12: a run of 2 iterations with auto-merge on and YOLO off in which every
\* remote call succeeds and every poll is mergeable at once finalizes a
\* record with issuesCreated = 2, prsOpened = 2, prsMerged = 2,
\* yoloMerges = 0, commentsPosted = 4 and two entries in each latency
\* sequence.
C12_EndToEnd ==
  (Finalized /\ TwoIterationSetup /\ obs.scenario = "clean") =>
    /\ api.ret.issuesCreated = 2
    /\ api.ret.prsOpened = 2
    /\ api.ret.prsMerged = 2
    /\ api.ret.yoloMerges = 0
    /\ api.ret.commentsPosted = 4
    /\ Len(api.ret.issueToFirstCommentMs) = 2
    /\ Len(api.ret.prOpenToMergeMs) = 2
    /\ store.runs[Len(store.runs)] = api.ret

C12_Witness ==
  /\ Finalized
  /\ TwoIterationSetup
  /\ obs.scenario = "clean"
  /\ obs.completed = 2
  /\ api.ret.prsMerged = 2

\* C13: in the same setup, when only the PR creation of the second iteration
\* fails, endRun is still executed, and (the store being writable) the run
\* ends normally with a finalized record of issuesCreated = 2,
\* prsOpened = 1, prsMerged = 1.
C13_PartialFailure ==
  (Finished /\ TwoIterationSetup /\ obs.scenario = "pr2" /\ obs.failed = 1) =>
    /\ obs.endRuns = 1
    /\ api.writable => /\ Finalized
                       /\ exitCode \in {-1, 0}
                       /\ api.ret.issuesCreated = 2
                       /\ api.ret.prsOpened = 1
                       /\ api.ret.prsMerged = 1
                       /\ store.runs[Len(store.runs)] = api.ret

C13_Witness ==
  /\ pc = "exited"
  /\ exitCode = 0
  /\ TwoIterationSetup
  /\ obs.scenario = "pr2"
  /\ obs.failed = 1
  /\ obs.completed = 1
  /\ api.ret.prsOpened = 1

\* ------------------------------------------------------------------------
\* analytics.ts: lifecycle, persistence and statistics
\* ------------------------------------------------------------------------

RecordOps == {"recordIssueCreated", "recordIssueClosed", "recordPROpened", "recordPRMerged", "recordCommentPosted", "recordCoAuthoredCommit", "recordIssueToComment", "recordPRToMerge"}

\* C14: a record* operation or endRun called while no run is in flight
\* raises an error and leaves the in-flight state absent and the persisted
\* store unchanged.
C14_NoRunInFlightFails ==
  [][(~current.active /\ api'.op \in RecordOps \cup {"endRun"}) =>
       (api'.threw /\ current' = NoRun /\ store' = store)]_vars

C14_Witness ==
  /\ api.op = "endRun"
  /\ api.threw
  /\ ~current.active
  /\ store.kind = "valid"
  /\ Len(store.runs) = 2

\* C15: startRun called while a run is in flight fails with an error and
\* keeps what the in-flight record holds.
C15_StartRunInFlightFails ==
  [][(current.active /\ api'.op = "startRun") => (api'.threw /\ current' = current)]_vars

\* C16: when endRun returns, the runs of the store are the runs persisted
\* before the call followed by the finalized record, the returned record is
\* that last record, and no run is in flight.
C16_EndRunAppends ==
  [][(current.active /\ api'.op = "endRun" /\ ~api'.threw) =>
       /\ store'.kind = "valid"
       /\ store'.runs = Append(store.runs, [current EXCEPT !.active = FALSE])
       /\ api'.ret = store'.runs[Len(store'.runs)]
       /\ current' = NoRun]_vars

C16_Witness ==
  /\ api.op = "endRun"
  /\ ~api.threw
  /\ ~current.active
  /\ Len(store.runs) = 2
  /\ store.runs[1] = PriorRun
  /\ store.runs[2] = api.ret
  /\ api.ret.issuesCreated = 1

\* Every entry of the sequence durations is non-negative.
NonNegative(durations) == \A k \in 1..Len(durations) : durations[k] >= 0

\* C17: every duration of the in-flight record and of every persisted
\* record is non-negative; recordIssueToComment and recordPRToMerge store 0
\* when the second timestamp is earlier than the first and the difference
\* otherwise.
C17_DurationsNonNegative ==
  /\ NonNegative(current.issueToFirstCommentMs)
  /\ NonNegative(current.prOpenToMergeMs)
  /\ \A k \in 1..Len(store.runs) :
       NonNegative(store.runs[k].issueToFirstCommentMs) /\ NonNegative(store.runs[k].prOpenToMergeMs)
  /\ (api.op = "recordIssueToComment" /\ ~api.threw) =>
       current.issueToFirstCommentMs[Len(current.issueToFirstCommentMs)] = (IF api.t2 < api.t1 THEN 0 ELSE api.t2 - api.t1)
  /\ (api.op = "recordPRToMerge" /\ ~api.threw) =>
       current.prOpenToMergeMs[Len(current.prOpenToMergeMs)] = (IF api.t2 < api.t1 THEN 0 ELSE api.t2 - api.t1)

C17_Witness ==
  /\ api.op = "recordPRToMerge"
  /\ ~api.threw
  /\ api.t2 < api.t1
  /\ current.prOpenToMergeMs = <<0>>

\* The sum of a counter field over the records of the store.
FieldTotal(field) ==
  LET S[k \in 0..Len(store.runs)] == IF k = 0 THEN 0 ELSE S[k - 1] + store.runs[k][field]
  IN S[Len(store.runs)]

\* C18: every total of getAggregateStats is the sum of its counter over all
\* records of the persisted store, the records finalized by earlier endRun
\* calls included, and totalRuns is the number of records.
C18_TotalsAreSums ==
  api.op = "getAggregateStats" =>
    /\ api.stats.totalRuns = Len(store.runs)
    /\ api.stats.totalIssuesCreated = FieldTotal("issuesCreated")
    /\ api.stats.totalIssuesClosed = FieldTotal("issuesClosed")
    /\ api.stats.totalPRsOpened = FieldTotal("prsOpened")
    /\ api.stats.totalPRsMerged = FieldTotal("prsMerged")
    /\ api.stats.totalYoloMerges = FieldTotal("yoloMerges")
    /\ api.stats.totalComments = FieldTotal("commentsPosted")
    /\ api.stats.totalCoAuthoredCommits = FieldTotal("coAuthoredCommits")

C18_Witness ==
  /\ api.op = "getAggregateStats"
  /\ Len(store.runs) = 2
  /\ store.runs[2].issuesCreated = 1
  /\ api.stats.totalRuns = 2
  /\ api.stats.totalIssuesCreated = 2

\* The number of entries of a latency field over the records of the store.
EntryCount(field) ==
  LET N[k \in 0..Len(store.runs)] == IF k = 0 THEN 0 ELSE N[k - 1] + Len(store.runs[k][field])
  IN N[Len(store.runs)]

\* The sum of the entries of a latency field over the records of the store.
EntryTotal(field) ==
  LET OfRun(r) == LET T[j \in 0..Len(r[field])] == IF j = 0 THEN 0 ELSE T[j - 1] + r[field][j]
                  IN T[Len(r[field])]
      S[k \in 0..Len(store.runs)] == IF k = 0 THEN 0 ELSE S[k - 1] + OfRun(store.runs[k])
  IN S[Len(store.runs)]

\* The number q is the mean of the entries of field over all records, 0
\* when there is none.
IsMeanOfAll(q, field) ==
  IF EntryCount(field) = 0 THEN q.num = 0 /\ q.den = 1
  ELSE q.den > 0 /\ q.num * EntryCount(field) = EntryTotal(field) * q.den

\* C19: each average of getAggregateStats is the sum of all entries of its
\* latency sequence over all persisted runs divided by their number, and 0
\* when there is no entry.
C19_AveragesAreMeans ==
  api.op = "getAggregateStats" =>
    /\ IsMeanOfAll(api.stats.avgIssueToCommentMs, "issueToFirstCommentMs")
    /\ IsMeanOfAll(api.stats.avgPRToMergeMs, "prOpenToMergeMs")

C19_Witness ==
  /\ api.op = "getAggregateStats"
  /\ Len(store.runs) = 2
  /\ store.runs[1].issueToFirstCommentMs = <<1>>
  /\ store.runs[2].issueToFirstCommentMs = <<0, 0>>
  /\ api.stats.avgIssueToCommentMs = [num |-> 1, den |-> 3]
  /\ api.stats.avgPRToMergeMs = [num |-> 0, den |-> 1]

BrokenKinds == {"missing", "corrupt", "invalid"}

AllZero == [totalRuns |-> 0, totalIssuesCreated |-> 0, totalIssuesClosed |-> 0, totalPRsOpened |-> 0, totalPRsMerged |-> 0, totalYoloMerges |-> 0, totalComments |-> 0, totalCoAuthoredCommits |-> 0, avgIssueToCommentMs |-> [num |-> 0, den |-> 1], avgPRToMergeMs |-> [num |-> 0, den |-> 1]]

\* C20: with a missing or corrupt store getAggregateStats returns all-zero
\* statistics, and endRun (its write going through) succeeds and leaves a
\* valid store that holds the newly finalized record.
C20_BrokenStoreDegrades ==
  /\ (api.op = "getAggregateStats" /\ api.found \in BrokenKinds) => (~api.threw /\ api.stats = AllZero)
  /\ (api.op = "endRun" /\ api.found \in BrokenKinds /\ api.writable) =>
       /\ ~api.threw
       /\ ~api.ret.active
       /\ store = [kind |-> "valid", runs |-> <<api.ret>>]
       /\ current = NoRun

C20_Witness ==
  /\ api.op = "endRun"
  /\ api.found = "corrupt"
  /\ ~api.threw
  /\ store.kind = "valid"
  /\ Len(store.runs) = 1
  /\ api.ret.commentsPosted = 2

\* ------------------------------------------------------------------------
\* The end of the run
\* ------------------------------------------------------------------------

C22_ReportFailureIsHarmless ==
  api.report = "failed" =>
    /\ api.op = "endRun"
    /\ ~api.threw
    /\ current = NoRun
    /\ store.kind = "valid"
    /\ store.runs[Len(store.runs)] = api.ret
    /\ pc \in {"resolved", "exited"}
    /\ pc = "exited" => exitCode = 0

C22_Witness ==
  /\ pc = "exited"
  /\ api.report = "failed"
  /\ exitCode = 0
  /\ api.ret.issuesCreated = 1

\* ------------------------------------------------------------------------
\* Remote calls and what is reported to the accumulator
\* ------------------------------------------------------------------------

\* C23: every remote call goes through withRateLimit, so a throttling
\* failure of any of them is followed by one sleep and one retry; none is
\* invoked once with its 403 or 429 swallowed.
C23_EveryCallThroughExecutor ==
  /\ (rl.phase \in {"second", "returned", "threw"} /\ Throttled(rl.first)) => (rl.sleeps = 1 /\ rl.calls = 2)
  /\ wf.contentRead # "throttled"
  /\ mp.deleted # "throttled"

\* C24 as stated: commentsPosted of the finalized record is the number of
\* comments the run posted, the review comment of the reviewed merge path
\* included.
C24_AllCommentsCounted == Finalized => api.ret.commentsPosted = obs.commentsOk

\* 1 while the call awaited at pc = at has returned and the record call
\* that follows it has not run yet.
Lag(ats) == IF pc \in ats /\ rl.phase = "returned" THEN 1 ELSE 0

\* C24: commentsPosted counts the comments posted by the two comment steps
\* of runSingleWorkflow (on the issue and on the PR); the review comment
\* that mergePullRequest posts is not reported to the accumulator.
C24_WorkflowCommentsCounted ==
  /\ current.active => current.commentsPosted = obs.commentsOk - obs.reviewOk - Lag({"commentIssue", "commentPR"})
  /\ Finalized => api.ret.commentsPosted = obs.commentsOk - obs.reviewOk

C24_Witness ==
  /\ Finalized
  /\ obs.reviewOk = 2
  /\ obs.commentsOk = 6
  /\ api.ret.commentsPosted = 4

\* C25: while the run is in flight issuesCreated, prsOpened and prsMerged
\* are the numbers of createIssue, createPullRequest and mergePullRequest
\* calls that returned, up to the record call that follows each return.
C25_OnlySuccessesCounted ==
  current.active =>
    /\ current.issuesCreated = obs.issuesOk - Lag({"createIssue"})
    /\ current.prsOpened = obs.prsOk - Lag({"createPr"})
    /\ current.prsMerged = obs.mergesOk - (IF pc = "mpReturned" THEN 1 ELSE 0)
    /\ obs.issuesOk <= obs.issueCalls
    /\ obs.prsOk <= obs.prCalls

C25_Witness ==
  /\ current.active
  /\ obs.issueCalls = 2
  /\ obs.prCalls = 1
  /\ obs.failed = 2
  /\ current.issuesCreated = 1
  /\ current.prsOpened = 0
  /\ current.prsMerged = 0

CounterFields == {"issuesCreated", "issuesClosed", "prsOpened", "prsMerged", "yoloMerges", "commentsPosted", "coAuthoredCommits"}

LatencyFields == {"issueToFirstCommentMs", "prOpenToMergeMs"}

IsPrefix(s, t) == Len(s) <= Len(t) /\ SubSeq(t, 1, Len(s)) = s

\* Record b holds everything record a holds.
Keeps(a, b) ==
  /\ \A f \in CounterFields : a[f] <= b[f]
  /\ \A f \in LatencyFields : IsPrefix(a[f], b[f])

\* C26: a failed iteration leaves the in-flight record as it was, later
\* steps only add to it, and endRun finalizes it as it is: what was
\* recorded before a failure is in the finalized record.
C26_FailureKeepsRecorded ==
  [][current.active =>
       /\ current'.active => Keeps(current, current')
       /\ obs'.failed > obs.failed => current' = current
       /\ ~current'.active => /\ api'.ret = [current EXCEPT !.active = FALSE]
                              /\ store'.runs[Len(store'.runs)] = api'.ret]_vars

C26_Witness ==
  /\ Finalized
  /\ iterations = 2
  /\ obs.failed = 2
  /\ api.ret.issuesCreated = 2
  /\ api.ret.commentsPosted = 3
  /\ api.ret.prsOpened = 1
  /\ Len(api.ret.issueToFirstCommentMs) = 2

\* The fields in which the records a and b differ.
Changed(a, b) == {f \in CounterFields \cup LatencyFields : a[f] # b[f]}

\* C27 as stated: a record* operation on an in-flight run changes exactly
\* one field of the record and leaves the store unchanged.
C27_ExactlyOneField ==
  [][(current.active /\ api'.op \in RecordOps) =>
       (Cardinality(Changed(current, current')) = 1 /\ store' = store)]_vars

\* The field a record* operation reports to.
FieldOf(op) ==
  CASE op = "recordIssueCreated" -> "issuesCreated"
    [] op = "recordIssueClosed" -> "issuesClosed"
    [] op = "recordPROpened" -> "prsOpened"
    [] op = "recordPRMerged" -> "prsMerged"
    [] op = "recordCommentPosted" -> "commentsPosted"
    [] op = "recordCoAuthoredCommit" -> "coAuthoredCommits"
    [] op = "recordIssueToComment" -> "issueToFirstCommentMs"
    [] op = "recordPRToMerge" -> "prOpenToMergeMs"

\* C27: a record* operation on an in-flight run adds 1 to its counter, or
\* one entry to its latency sequence, and leaves the other fields and the
\* store unchanged; recordPRMerged(true) adds 1 to prsMerged and to
\* yoloMerges.
C27_OneFieldOrMergeWithYolo ==
  [][(current.active /\ api'.op \in RecordOps) =>
       /\ store' = store
       /\ current'.active
       /\ Changed(current, current') = (IF api'.op = "recordPRMerged" /\ api'.yolo THEN {"prsMerged", "yoloMerges"} ELSE {FieldOf(api'.op)})
       /\ \A f \in Changed(current, current') :
            IF f \in CounterFields THEN current'[f] = current[f] + 1
            ELSE Len(current'[f]) = Len(current[f]) + 1 /\ IsPrefix(current[f], current'[f])]_vars

C27_Witness ==
  /\ api.op = "recordPRMerged"
  /\ api.yolo
  /\ ~api.threw
  /\ current.prsMerged = 1
  /\ current.yoloMerges = 1
  /\ current.commentsPosted = 1

\* C28: a finalized record does not change: the record endRun returns is
\* the one it stored, and no later call changes or removes a stored record.
C28_FinalizedIsImmutable ==
  /\ []((api.op = "endRun" /\ ~api.threw) => api.ret = store.runs[Len(store.runs)])
  /\ [][\A k \in 1..Len(store.runs) : Len(store'.runs) >= k /\ store'.runs[k] = store.runs[k]]_vars

C28_Witness ==
  /\ api.op = "startRun"
  /\ current.active
  /\ Len(store.runs) = 2
  /\ store.runs[1].prsOpened = 1
  /\ store.runs[2].commentsPosted = 1

\* ------------------------------------------------------------------------
\* mergeManager.ts: mergePullRequest
\* ------------------------------------------------------------------------

\* C29: a failed deletion of the source branch does not leave
\* mergePullRequest as an exception: it returns its result with the yolo
\* flag of the effective policy and the branch name it was given, and the
\* orchestrator records the merge.
C29_DeletionIsBestEffort ==
  /\ [](mp.deleted \in {"failed", "throttled"} =>
          /\ pc = "mpReturned"
          /\ mp.phase = "returned"
          /\ mp.result.yolo = mp.useYolo
          /\ mp.result.deletedBranch = mp.branchName
          /\ mp.branchName = wf.branch
          /\ wf.branch = i + 1)
  /\ [][mp.deleted \in {"failed", "throttled"} =>
          /\ pc' = "wfReturned"
          /\ current'.prsMerged = current.prsMerged + 1
          /\ current'.issuesClosed = current.issuesClosed + 1
          /\ obs'.failed = obs.failed]_vars

C29_Witness ==
  /\ pc = "mpReturned"
  /\ mp.deleted = "failed"
  /\ mp.mergeCalls = 1
  /\ mp.result.deletedBranch = 2

\* The policy the call asks for: its flag when given, else the default.
AskedPolicy == IF mp.yoloArg = "true" THEN TRUE ELSE IF mp.yoloArg = "false" THEN FALSE ELSE cfg.yoloMode

\* C30: the effective policy of mergePullRequest is the flag of the call
\* when there is one and config.yoloMode when there is none; the path
\* taken, the yolo flag of the result and the yoloMerges counter follow it.
C30_CallSiteFlagWins ==
  /\ [](mp.phase # "idle" =>
          /\ mp.useYolo = AskedPolicy
          /\ AskedPolicy => mp.commentCalls = 0
          /\ (~AskedPolicy /\ mp.mergeCalls > 0) => mp.commentsDone = 1
          /\ mp.phase = "returned" => mp.result.yolo = AskedPolicy)
  /\ [][pc = "mpReturned" =>
          /\ current'.prsMerged = current.prsMerged + 1
          /\ current'.yoloMerges = current.yoloMerges + (IF AskedPolicy THEN 1 ELSE 0)]_vars

C30_Witness ==
  /\ pc = "mpReturned"
  /\ mp.yoloArg = "false"
  /\ cfg.yoloMode
  /\ ~mp.result.yolo
  /\ mp.commentsDone = 1

\* ------------------------------------------------------------------------
\* mergeManager.ts: isMergeable, queries and sleeps
\* ------------------------------------------------------------------------

\* C32 as stated: one isMergeable call executes octokit.pulls.get at most
\* 5 times, whatever the outcomes of the query.
C32_AtMostFiveQueries == mg.queries <= MAX_ATTEMPTS

\* The attempts of the loop that ran their poll so far.
Attempts == Min(mg.attempt, MAX_ATTEMPTS)

\* C32: one isMergeable call makes at most 5 polls, each through
\* withRateLimit, which executes octokit.pulls.get once and a second time
\* after a throttling failure: the query is executed at least once and at
\* most twice per poll, at most 10 times in the call.
C32_AtMostTwoQueriesPerPoll ==
  mg.phase # "idle" =>
    /\ Len(mg.polls) <= Attempts
    /\ Attempts <= mg.queries
    /\ mg.queries <= 2 * Attempts
    /\ mg.queries <= 2 * MAX_ATTEMPTS
    /\ pc = "poll" => (rl.label = "check-mergeable" /\ rl.calls <= 2)
    /\ (pc = "poll" /\ rl.calls = 2) => Throttled(rl.first)

C32_Witness ==
  /\ pc = "mgReturned"
  /\ Len(mg.polls) = MAX_ATTEMPTS
  /\ mg.queries = 2 * MAX_ATTEMPTS

\* C33: a call of isMergeable that made k polls slept DELAY_MS exactly
\* k - 1 times: no sleep follows its last poll.
C33_SleepsOnlyBetweenPolls == mg.phase = "returned" => mg.sleeps = Len(mg.polls) - 1

\* ------------------------------------------------------------------------
\* index.ts: the steps of an iteration
\* ------------------------------------------------------------------------

\* C34: with auto-merge enabled, an isMergeable that returned false ends
\* the iteration as completed, not as failed: mergePullRequest is not
\* called (no merge, no branch deletion) and the iteration leaves
\* prsMerged, yoloMerges, issuesClosed and prOpenToMergeMs as they were.
C34_NotMergeableCompletes ==
  /\ [](wf.canMerge = "false" =>
          /\ cfg.autoMerge
          /\ wf.warned
          /\ wf.state = "completed"
          /\ mp = MpIdle
          /\ pc \notin MergePcs
          /\ wf.done = <<"CreateIssue", "CommentOnIssue", "OpenPR", "CommentOnPR", "CheckMergeability">>)
  /\ [][(pc = "mgReturned" /\ ~mg.ret) =>
          /\ pc' = "wfReturned"
          /\ wf'.canMerge = "false"
          /\ current' = current]_vars
  /\ [][(pc = "wfReturned" /\ wf.canMerge = "false") =>
          /\ obs'.completed = obs.completed + 1
          /\ obs'.failed = obs.failed
          /\ current' = current]_vars

C34_Witness ==
  /\ pc = "exited"
  /\ iterations = 1
  /\ wf.canMerge = "false"
  /\ wf.pollEnd = "null"
  /\ obs.completed = 1
  /\ obs.failed = 0
  /\ api.ret.prsOpened = 1
  /\ api.ret.prsMerged = 0
  /\ api.ret.issuesClosed = 0
  /\ api.ret.prOpenToMergeMs = <<>>

\* The steps of an iteration, in the order of runSingleWorkflow.
StepOrder == <<"CreateIssue", "CommentOnIssue", "OpenPR", "CommentOnPR", "CheckMergeability", "Merge">>

\* The step (its index in StepOrder) the await at pc belongs to; 0: none.
StepAt ==
  CASE pc = "createIssue" -> 1
    [] pc = "commentIssue" -> 2
    [] pc \in PrPcs -> 3
    [] pc = "commentPR" -> 4
    [] pc \in {"poll", "mg_sleep", "mgReturned"} -> 5
    [] pc \in MergePcs -> 6
    [] OTHER -> 0

\* The label of the wrapped call awaited at pc ("none": no wrapped call).
LabelAt ==
  CASE pc = "createIssue" -> "create-issue"
    [] pc = "commentIssue" -> "comment-issue"
    [] pc = "getRepo" -> "get-repo"
    [] pc = "getRef" -> "get-ref"
    [] pc = "createBranch" -> "create-branch"
    [] pc = "commitFile" -> "commit-file"
    [] pc = "createPr" -> "create-pr"
    [] pc \in {"commentPR", "mp_comment"} -> "comment-pr"
    [] pc = "poll" -> "check-mergeable"
    [] pc = "mp_merge" -> "merge-pr"
    [] OTHER -> "none"

\* C35: the steps of an iteration run in the order CreateIssue,
\* CommentOnIssue, OpenPR, CommentOnPR, CheckMergeability, Merge; a step is
\* in flight only when all steps before it returned in this iteration; at
\* most one remote call is in flight, the one the current step awaits; an
\* iteration starts only when the one before it completed or failed.
C35_StrictlySequential ==
  /\ IsPrefix(wf.done, StepOrder)
  /\ StepAt # 0 => Len(wf.done) = StepAt - 1
  /\ rl.label = LabelAt
  /\ pc \in {"getContent", "mp_deleteRef"} => rl = RlIdle
  /\ pc \in WorkflowPcs => (wf.state = "running" /\ obs.started = obs.completed + obs.failed + 1)
  /\ pc \in {"loop", "pause"} => (rl = RlIdle /\ wf.state \in {"none", "completed", "failed"} /\ obs.started = obs.completed + obs.failed /\ obs.started = i + (IF pc = "pause" THEN 1 ELSE 0))

C35_Witness ==
  /\ pc = "createIssue"
  /\ i = 1
  /\ obs.completed = 1
  /\ current.prsMerged = 1
  /\ rl.phase = "sleeping"

\* C36: mergePullRequest deletes the source branch once, and only after
\* the merge returned; a merge that fails (after the one retry of a
\* throttled call) leaves mergePullRequest as an exception: nothing is
\* deleted, no result is built and the iteration fails.
C36_DeleteOnlyAfterMerge ==
  /\ [](/\ mp.deleteCalls <= 1
        /\ mp.mergeCalls <= 1
        /\ mp.deleteCalls = 1 => (mp.mergeCalls = 1 /\ pc \in {"mp_deleteRef", "mpReturned"})
        /\ mp.phase = "returned" => mp.deleteCalls = 1
        /\ pc = "mp_merge" => (mp.deleteCalls = 0 /\ mp.deleted = "none" /\ mp.result = MpIdle.result /\ mp.phase # "returned")
        /\ (pc = "mp_merge" /\ rl.calls = 2) => Throttled(rl.first))
  /\ [][mp'.deleteCalls > mp.deleteCalls => (pc = "mp_merge" /\ rl.phase = "returned" /\ mp.deleteCalls = 0)]_vars
  /\ [][(pc = "mp_merge" /\ rl.phase = "threw") =>
          /\ obs'.failed = obs.failed + 1
          /\ mp' = MpIdle
          /\ current' = current]_vars

C36_Witness ==
  /\ pc = "mp_merge"
  /\ rl.phase = "threw"
  /\ rl.calls = 2
  /\ mp.deleteCalls = 0

\* ------------------------------------------------------------------------
\* The counters of an orchestrator run
\* ------------------------------------------------------------------------

\* C38: in every state of an orchestrator run the in-flight record has
\* 0 <= yoloMerges <= prsMerged <= prsOpened <= issuesCreated <= the number
\* of iterations started, and coAuthoredCommits <= prsOpened.
C38_CountersAreOrdered ==
  current.active =>
    /\ 0 <= current.yoloMerges
    /\ current.yoloMerges <= current.prsMerged
    /\ current.prsMerged <= current.prsOpened
    /\ current.prsOpened <= current.issuesCreated
    /\ current.issuesCreated <= obs.started
    /\ current.coAuthoredCommits <= current.prsOpened

C38_Witness ==
  /\ current.active
  /\ obs.started = 2
  /\ current.issuesCreated = 2
  /\ current.prsOpened = 2
  /\ current.coAuthoredCommits = 2
  /\ current.prsMerged = 1
  /\ current.yoloMerges = 1
  /\ obs.failed = 1

\* C39: in every record the orchestrator finalizes, issuesClosed, prsMerged
\* and the length of prOpenToMergeMs are equal, issueToFirstCommentMs has at
\* most issuesCreated entries, and yoloMerges is prsMerged with YOLO
\* enabled and 0 with YOLO disabled.
C39_FinalizedRecordIsConsistent ==
  Finalized =>
    /\ api.ret.issuesClosed = api.ret.prsMerged
    /\ Len(api.ret.prOpenToMergeMs) = api.ret.prsMerged
    /\ Len(api.ret.issueToFirstCommentMs) <= api.ret.issuesCreated
    /\ api.ret.yoloMerges = (IF cfg.yoloMode THEN api.ret.prsMerged ELSE 0)

C39_Witness ==
  /\ Finalized
  /\ cfg.yoloMode
  /\ api.ret.issuesCreated = 2
  /\ Len(api.ret.issueToFirstCommentMs) = 1
  /\ api.ret.prsMerged = 1
  /\ api.ret.yoloMerges = 1
  /\ api.ret.issuesClosed = 1

BothDone == \A p \in Procs : procs[p].at = "done"

\* The process whose write to the file was the k-th.
Saver(k) == CHOOSE p \in Procs : procs[p].saved = k

\* Both endRun calls loaded the file before either wrote it.
Overlapped == procs[Saver(2)].allData = procs[Saver(1)].allData

\* C37: two invocations of the program on one analytics file.  When both
\* endRun calls load before either saves, the file ends with the record of
\* the second writer only: the record of the first writer is missing.
\* When the endRun calls do not overlap, the file ends with both records,
\* in the order they were finalized.
C37_InterleavedEndRunLosesARecord ==
  BothDone =>
    LET first == procs[Saver(1)]
        second == procs[Saver(2)]
    IN /\ first.allData = second.allData \/ second.allData = Append(first.allData, first.ret)
       /\ Overlapped => /\ store.runs = Append(first.allData, second.ret)
                        /\ Len(store.runs) = Len(first.allData) + 1
       /\ ~Overlapped => /\ store.runs = first.allData \o <<first.ret, second.ret>>
                         /\ Len(store.runs) = Len(first.allData) + 2

C37_Witness ==
  /\ BothDone
  /\ Overlapped
  /\ procs[Saver(1)].ret.issuesCreated = 2
  /\ procs[Saver(2)].ret.prsOpened = 1
  /\ store.runs = <<PriorRun, procs[Saver(2)].ret>>

\* ------------------------------------------------------------------------
\* Termination
\* ------------------------------------------------------------------------

\* C31: when every remote call and every sleep settles, the run ends: main
\* reaches endRun and the process exits, after at most
\* min(maxIssuesPerRun, maxPrsPerRun) iterations, with at most 5 polls per
\* isMergeable call and at most 2 invocations per wrapped call.
C31_RunTerminates ==
  /\ [](/\ obs.started <= Min(cfg.maxIssuesPerRun, cfg.maxPrsPerRun)
        /\ Len(mg.polls) <= MAX_ATTEMPTS
        /\ rl.calls <= 2
        /\ obs.endRuns <= 1)
  /\ <>(obs.endRuns = 1)
  /\ <>[](pc = "exited" /\ exitCode \in {0, 1})

C31_Witness ==
  /\ pc = "exited"
  /\ obs.started = 2
  /\ obs.endRuns = 1
  /\ obs.scenario = "other"
  /\ mg = MgIdle
  /\ wf.pollEnd = "null"
  /\ wf.warned

====
